---- MODULE Spec2Model ----
(***************************************************************************)
(* Model of @viteplus/versions: the configuration transformation that      *)
(* derives the per-(locale, version) navigation, sidebar, locale table and *)
(* rewrite function of a VitePress site.                                   *)
(*                                                                         *)
(* Representation of JavaScript values                                     *)
(*   string     the sequence of its '/'-separated pieces ("raw split"):    *)
(*              'fr/v1' is <<"fr","v1">>, '/guide/' is <<"","guide","">>,  *)
(*              '' is <<"">>; undefined is <<>>.  Two strings are equal    *)
(*              iff their raw splits are equal.  A piece is an atom whose  *)
(*              spelling is given by Chars.                                *)
(*   object     the sequence of its [k, v] entries in insertion order      *)
(*              (Object.keys order for non-integer keys).                  *)
(*   array      a sequence.                                                *)
(***************************************************************************)
EXTENDS Integers, Sequences, FiniteSets, TLC

VARIABLES
    segments,       \* extractLocale: the caller's array, consumed in place
    keyInput,       \* extractLocale: the array as it was passed
    keyLocales,     \* extractLocale: localesList
    keyVersions,    \* extractLocale: versionsList
    keyResult,      \* extractLocale: the returned {lang, version}
    keyPc,          \* "idle" | "call" | "done"
    navItems,       \* populateNav: the items array passed
    sidebarItems,   \* populateSidebar: the sidebar array passed
    popVersion,     \* populateNav / populateSidebar: the version argument
    popVersions,    \* populateNav: state.versionsList
    popResult,      \* the array returned
    popAgain,       \* the array returned when the transform is applied to popResult
    navHeap,        \* populateNav: the item objects, by address
    navHeapBefore,  \* populateNav: the item objects as they were before the call
    navRefs,        \* populateNav: the items array passed, as addresses
    navResultRefs,  \* populateNav: the array returned, as addresses
    popPc,          \* "idle" | "nav" | "sidebar" | "navDone" | "sidebarDone" | "navTwice" | "sidebarTwice"
    normNav,        \* normalizeNav: the nav argument
    normSidebar,    \* normalizeSidebar: the sidebar argument
    normPrefix,     \* normalizeNav / normalizeSidebar: the prefix argument
    normRoot,       \* normalizeNav: the root argument (the global results)
    normLocales,    \* normalizeSidebar: Object.values(state.localesMap)
    normVersions,   \* normalizeSidebar: state.versionsList
    normBefore,     \* the results object as it was passed
    normResults,    \* the results object, filled in place
    normPc,         \* "idle" | "nav" | "sidebar" | "navDone" | "sidebarDone"
    configuration,  \* StateModel.configuration: the merged user configuration
    archiveFolders, \* the directories of the archive path, in listing order
    stateVersionsList, \* StateModel.versionsList
    localesMap,     \* StateModel.localesMap
    locales,        \* StateModel.vitepressConfig.locales: the output table
    heap,           \* the themeConfig objects, by address
    rewrites,       \* StateModel.vitepressConfig.rewrites
    ran,            \* the stages run since init(), in order
    reference,      \* the output of the stages in the order of defineVersionedConfig
    pc,             \* "idle" | "constructed" | "ready"
    rwState,        \* rewrites: sources, archive, localesMap, versionsList and the hook
    rwId,           \* rewrites: the id the rewrites function is called with
    rwFileMap,      \* rewrites: state.fileMap, the files found under each folder
    rwMap,          \* rewrites: the object the map-based builder installs
    rwHookArgs,     \* rewritesHook: the arguments source, version, locale
    rwResult,       \* rewrites: the string returned
    rwPc,           \* "idle" | "ready" | "function" | "map" | "hook"
    objTarget,      \* deepMerge: obj1; assignMissingDeep: the target, filled in place
    objSource,      \* deepMerge: obj2; assignMissingDeep: the source
    objBefore,      \* the target as it was passed
    objResult,      \* the object returned
    objPc,          \* "idle" | "ready" | "merged" | "filled"
    disk,           \* the paths that exist on the filesystem
    diskBefore,     \* the filesystem as it was before the constructor ran
    diskWrites,     \* the filesystem writes of the constructor, in order
    ctorConfiguration, \* StateModel constructor: the configuration argument
    ctorInstance,   \* StateModel constructor: the fields of the instance built
    ctorPc,         \* "idle" | "new" | "threw" | "constructed"
    injectables,    \* INJECTABLES: the metadata of each decorated class
    singletons,     \* SINGLETONS: the instance held for each class
    injObjects,     \* the class of every object constructed so far, by identity
    injLog,         \* the calls of inject and forceInject so far, with what they returned
    injPc           \* "idle" | "ready"

keyVars == <<segments, keyInput, keyLocales, keyVersions, keyResult, keyPc>>
popVars == <<navItems, sidebarItems, popVersion, popVersions, popResult, popAgain,
             navHeap, navHeapBefore, navRefs, navResultRefs, popPc>>

normVars == <<normNav, normSidebar, normPrefix, normRoot, normLocales, normVersions,
              normBefore, normResults, normPc>>

stateVars == <<configuration, archiveFolders, stateVersionsList, localesMap, locales, heap,
               rewrites, ran, reference, pc>>

rwVars == <<rwState, rwId, rwFileMap, rwMap, rwHookArgs, rwResult, rwPc>>

objVars == <<objTarget, objSource, objBefore, objResult, objPc>>

fsVars == <<disk, diskBefore, diskWrites, ctorConfiguration, ctorInstance, ctorPc>>

injVars == <<injectables, singletons, injObjects, injLog, injPc>>

vars == <<keyVars, popVars, normVars, stateVars, rwVars, objVars, fsVars, injVars>>

-----------------------------------------------------------------------------
(* Bounds *)

MaxSegs == 4
MaxChildren == 2
MaxNavItems == 2
MaxEntries == 2
MaxLocales == 2
MaxVersions == 1
MaxPath == 3
MaxFiles == 2
MaxDepth == 2

-----------------------------------------------------------------------------
(* Strings *)

\* The spelling of the pieces used by the model.
Chars(a) ==
    CASE a = ""            -> <<>>
      [] a = "."           -> <<".">>
      [] a = ".."          -> <<".", ".">>
      [] a = "http"        -> <<"h","t","t","p">>
      [] a = "root"        -> <<"r","o","o","t">>
      [] a = "en"          -> <<"e","n">>
      [] a = "en-US"       -> <<"e","n","-","U","S">>
      [] a = "en_GB"       -> <<"e","n","_","G","B">>
      [] a = "fr"          -> <<"f","r">>
      [] a = "fr-CA"       -> <<"f","r","-","C","A">>
      [] a = "de"          -> <<"d","e">>
      [] a = "zh"          -> <<"z","h">>
      [] a = "zh-Hans-CN"  -> <<"z","h","-","H","a","n","s","-","C","N">>
      [] a = "v1"          -> <<"v","1">>
      [] a = "v2"          -> <<"v","2">>
      [] a = "v3"          -> <<"v","3">>
      [] a = "v4"          -> <<"v","4">>
      [] a = "guide"       -> <<"g","u","i","d","e">>
      [] a = "api"         -> <<"a","p","i">>
      [] a = "ref"         -> <<"r","e","f">>
      [] a = "https:"      -> <<"h","t","t","p","s",":">>
      [] a = "example.com" -> <<"e","x","a","m","p","l","e",".","c","o","m">>
      [] a = "src"         -> <<"s","r","c">>
      [] a = "archive"     -> <<"a","r","c","h","i","v","e">>
      [] a = "index.md"    -> <<"i","n","d","e","x",".","m","d">>
      [] a = "docs"        -> <<"d","o","c","s">>
      [] a = "versions"    -> <<"v","e","r","s","i","o","n","s">>
      [] a = "undefined"   -> <<"u","n","d","e","f","i","n","e","d">>

Atoms ==
    {"", ".", "..", "http", "root", "en", "en-US", "en_GB", "fr", "fr-CA", "de", "zh", "zh-Hans-CN", "v1", "v2", "v3", "v4",
     "guide", "api", "ref", "https:", "example.com", "src", "archive", "index.md", "docs", "versions",
     "undefined"}

\* The atom spelled cs.
AtomOf(cs) == CHOOSE a \in Atoms : Chars(a) = cs

IsPrefixSeq(p, s) == Len(p) =< Len(s) /\ SubSeq(s, 1, Len(p)) = p

\* The JavaScript literals the code uses.
Undefined == <<>>
Empty     == <<"">>
Root      == <<"root">>
Slash     == <<"", "">>

\* String.prototype.startsWith
StartsWith(s, t) ==
    LET n == Len(t) IN
    /\ n >= 1
    /\ Len(s) >= n
    /\ \A i \in 1..(n - 1) : s[i] = t[i]
    /\ IsPrefixSeq(Chars(t[n]), Chars(s[n]))

\* The characters of a string, its separators included.
RECURSIVE ToChars(_)
ToChars(s) ==
    IF s = <<>> THEN <<>>
    ELSE IF Len(s) = 1 THEN Chars(s[1])
    ELSE Chars(s[1]) \o <<"/">> \o ToChars(Tail(s))

\* The string of a sequence of characters.
RECURSIVE FromChars(_, _)
FromChars(cs, piece) ==
    IF cs = <<>> THEN <<AtomOf(piece)>>
    ELSE IF Head(cs) = "/" THEN <<AtomOf(piece)>> \o FromChars(Tail(cs), <<>>)
    ELSE FromChars(Tail(cs), Append(piece, Head(cs)))

\* String.prototype.indexOf, counted from 1; 0 when there is no occurrence.
IndexOf(cs, pattern) ==
    LET at == {i \in 1..(Len(cs) - Len(pattern) + 1) :
                  SubSeq(cs, i, i + Len(pattern) - 1) = pattern}
    IN  IF at = {} THEN 0 ELSE CHOOSE i \in at : \A j \in at : i =< j

\* s.replace(pattern, ''): the first occurrence of a string pattern removed.
Replace(s, pattern) ==
    LET cs == ToChars(s)
        p  == ToChars(pattern)
        i  == IndexOf(cs, p)
    IN  IF i = 0 THEN s
        ELSE FromChars(SubSeq(cs, 1, i - 1) \o SubSeq(cs, i + Len(p), Len(cs)), <<>>)

\* Array.prototype.filter(Boolean) on an array of string pieces.
RECURSIVE FilterBoolean(_)
FilterBoolean(a) ==
    IF a = <<>> THEN <<>>
    ELSE IF Head(a) = "" THEN FilterBoolean(Tail(a))
    ELSE <<Head(a)>> \o FilterBoolean(Tail(a))

\* key.split('/')
Split(s) == s

\* segments.join('/')
JoinSlash(a) == IF a = <<>> THEN Empty ELSE a

\* Array.prototype.includes on an array of strings, asked for one piece.
Includes(list, seg) == \E i \in 1..Len(list) : list[i] = <<seg>>

\* normalizeString of path/posix: the pieces of a path with '', '.' and
\* resolvable '..' removed.
RECURSIVE NormalizeString(_, _, _)
NormalizeString(rest, acc, isAbsolute) ==
    IF rest = <<>> THEN acc
    ELSE LET h == Head(rest)
             t == Tail(rest)
         IN  IF h = "" \/ h = "." THEN NormalizeString(t, acc, isAbsolute)
             ELSE IF h = ".."
             THEN IF acc # <<>> /\ acc[Len(acc)] # ".."
                  THEN NormalizeString(t, SubSeq(acc, 1, Len(acc) - 1), isAbsolute)
                  ELSE IF isAbsolute THEN NormalizeString(t, acc, isAbsolute)
                  ELSE NormalizeString(t, Append(acc, ".."), isAbsolute)
             ELSE NormalizeString(t, Append(acc, h), isAbsolute)

\* posix.normalize(path)
PosixNormalize(path) ==
    IF path = Empty THEN <<".">>
    ELSE LET isAbsolute == Len(path) >= 2 /\ path[1] = ""
             trailing   == Len(path) >= 2 /\ path[Len(path)] = ""
             pieces     == NormalizeString(path, <<>>, isAbsolute)
             body       == IF pieces = <<>> /\ ~isAbsolute THEN <<".">> ELSE pieces
             tailed     == IF body # <<>> /\ trailing THEN Append(body, "") ELSE body
         IN  IF isAbsolute
             THEN <<"">> \o (IF tailed = <<>> THEN <<"">> ELSE tailed)
             ELSE tailed

\* args.join('/') over the non-empty arguments
RECURSIVE JoinArgs(_)
JoinArgs(args) ==
    IF args = <<>> THEN <<>>
    ELSE IF Head(args) = Empty THEN JoinArgs(Tail(args))
    ELSE Head(args) \o JoinArgs(Tail(args))

\* A join that does not normalise: duplicate separators stay.
PosixJoinRaw(args) ==
    LET joined == JoinArgs(args)
    IN  IF joined = <<>> THEN <<".">> ELSE joined

\* join(...args) of path/posix
PosixJoin(args) ==
    LET joined == JoinArgs(args)
    IN  IF joined = <<>> THEN <<".">> ELSE PosixNormalize(joined)

\* safeJoin(...args)
SafeJoin(args) ==
    LET joined == PosixJoin(args)
    IN  IF joined = <<".">> THEN Empty ELSE joined

-----------------------------------------------------------------------------
(* Objects: sequences of [k, v] entries in insertion order *)

\* One [ key, value ] entry of an object
Entry(key, value) == [k |-> key, v |-> value]

\* key in obj
Has(obj, key) == \E i \in 1..Len(obj) : obj[i].k = key

\* obj[key], for a key of obj
Get(obj, key) == obj[CHOOSE i \in 1..Len(obj) : obj[i].k = key].v

\* obj[key] = value
Put(obj, key, value) ==
    IF Has(obj, key)
    THEN [i \in 1..Len(obj) |-> IF obj[i].k = key THEN [k |-> key, v |-> value] ELSE obj[i]]
    ELSE Append(obj, [k |-> key, v |-> value])

\* Object.keys(obj)
Keys(obj) == [i \in 1..Len(obj) |-> obj[i].k]

\* Object.values(obj)
Values(obj) == [i \in 1..Len(obj) |-> obj[i].v]

-----------------------------------------------------------------------------
(* Object utilities *)

\* A JavaScript value: a scalar (null, false, a number), an array of values
\* or a plain object of [k, v] entries.
JsScalar(x)       == [t |-> "scalar", v |-> x, items |-> <<>>]
JsArray(items)    == [t |-> "array", v |-> "", items |-> items]
JsObject(entries) == [t |-> "object", v |-> "", items |-> entries]

\* val && typeof val === 'object'
IsObjectType(val) == val.t \in {"array", "object"}

\* A plain key-value container: an object that is not an array.
IsPlainObject(val) == val.t = "object"

\* The property name of an array index.
IndexKey(i) == CASE i = 1 -> "0" [] i = 2 -> "1" [] i = 3 -> "2" [] OTHER -> "3"

\* { ...val }: the own enumerable properties, those of an array being its
\* indices.
OwnEntries(val) ==
    IF val.t = "object" THEN val.items
    ELSE IF val.t = "array" THEN [i \in 1..Len(val.items) |-> Entry(IndexKey(i), val.items[i])]
    ELSE <<>>

\* val[key]: <<>> when undefined
Lookup(val, key) ==
    IF Has(OwnEntries(val), key) THEN <<Get(OwnEntries(val), key)>> ELSE <<>>

\* deepMerge(obj1, obj2): Step[i] is result after the first i keys of obj2.
RECURSIVE DeepMerge(_, _)
DeepMerge(obj1, obj2) ==
    LET Step[i \in 0..Len(OwnEntries(obj2))] ==
            IF i = 0 THEN OwnEntries(obj1)
            ELSE LET key  == OwnEntries(obj2)[i].k
                     val2 == OwnEntries(obj2)[i].v
                     val1 == Lookup(obj1, key)
                 IN  Put(Step[i - 1], key,
                         IF /\ val1 # <<>> /\ IsObjectType(val1[1])
                            /\ IsObjectType(val2)
                            /\ ~(val2.t = "array") /\ ~(val2.t = "array")
                         THEN DeepMerge(val1[1], val2)
                         ELSE val2)
    IN  JsObject(Step[Len(OwnEntries(obj2))])

PollutionKeys == {"__proto__", "constructor", "prototype"}

\* A fill that takes null, false and 0 in the target for missing.
RECURSIVE AssignMissingDeepFalsy(_, _)
AssignMissingDeepFalsy(target, source) ==
    LET Step[i \in 0..Len(source.items)] ==
            IF i = 0 THEN target.items
            ELSE LET key  == source.items[i].k
                     val  == source.items[i].v
                     sofar == Step[i - 1]
                 IN  IF key \in PollutionKeys THEN sofar
                     ELSE IF ~Has(sofar, key) \/ Get(sofar, key) \in {JsScalar("null"), JsScalar("false"), JsScalar("0")}
                     THEN Put(sofar, key, val)
                     ELSE IF IsPlainObject(Get(sofar, key)) /\ IsPlainObject(val)
                     THEN Put(sofar, key, AssignMissingDeepFalsy(Get(sofar, key), val))
                     ELSE sofar
    IN  JsObject(Step[Len(source.items)])

\* assignMissingDeep(target, source): the target after the call, which is
\* also the object returned.  Step[i] is the target after the first i keys of
\* source.
RECURSIVE AssignMissingDeep(_, _)
AssignMissingDeep(target, source) ==
    LET Step[i \in 0..Len(source.items)] ==
            IF i = 0 THEN target.items
            ELSE LET key  == source.items[i].k
                     val  == source.items[i].v
                     sofar == Step[i - 1]
                 IN  IF key \in PollutionKeys THEN sofar
                     ELSE IF ~Has(sofar, key) THEN Put(sofar, key, val)
                     ELSE IF IsPlainObject(Get(sofar, key)) /\ IsPlainObject(val)
                     THEN Put(sofar, key, AssignMissingDeep(Get(sofar, key), val))
                     ELSE sofar
    IN  JsObject(Step[Len(source.items)])

-----------------------------------------------------------------------------
(* Path-Key Parser *)

\* A parser that tries the locale before the version.
ExtractLocaleLocaleFirst(segs, localesList, versionsList) ==
    LET hasLang == segs # <<>> /\ Includes(localesList, segs[1])
        s1      == IF hasLang THEN Tail(segs) ELSE segs
        hasVer  == s1 # <<>> /\ Includes(versionsList, s1[1])
    IN  [lang    |-> IF hasLang THEN <<segs[1]>> ELSE Empty,
         version |-> IF hasVer THEN <<s1[1]>> ELSE Empty,
         rest    |-> IF hasVer THEN Tail(s1) ELSE s1]

\* A parser that forgets the version that follows a locale.
ExtractLocaleNoVersionAfterLang(segs, localesList, versionsList) ==
    IF segs # <<>> /\ Includes(versionsList, segs[1])
    THEN [lang |-> Empty, version |-> <<segs[1]>>, rest |-> Tail(segs)]
    ELSE IF segs # <<>> /\ Includes(localesList, segs[1])
    THEN [lang |-> <<segs[1]>>, version |-> Empty, rest |-> Tail(segs)]
    ELSE [lang |-> Empty, version |-> Empty, rest |-> segs]

\* extractLocale(segments, localesList, versionsList) of the sidebar component:
\* the returned {lang, version}, and the array as the call leaves it (rest).
\* segments[0] of an empty array is undefined, which no list includes.
ExtractLocale(segs, localesList, versionsList) ==
    IF segs # <<>> /\ Includes(versionsList, segs[1])
    THEN [lang |-> Empty, version |-> <<segs[1]>>, rest |-> Tail(segs)]
    ELSE LET hasLang == segs # <<>> /\ Includes(localesList, segs[1])
             s1      == IF hasLang THEN Tail(segs) ELSE segs
             hasVer  == s1 # <<>> /\ Includes(versionsList, s1[1])
         IN  [lang    |-> IF hasLang THEN <<segs[1]>> ELSE Empty,
              version |-> IF hasVer THEN <<s1[1]>> ELSE Empty,
              rest    |-> IF hasVer THEN Tail(s1) ELSE s1]

-----------------------------------------------------------------------------
(* Navigation propagation *)

\* A navigation item: link is Undefined when the item has none, hasItems tells
\* whether the item has an items array, component is Undefined for an item that
\* is no component reference, props holds the user's props (userProps, "none"
\* when absent) and the injected versioningPlugin (<<>> when absent).
NoProps == [userProps |-> "none", versioningPlugin |-> <<>>]

NavLink(text, link, skip) ==
    [text |-> text, link |-> link, skipVersioning |-> skip, hasItems |-> FALSE,
     items |-> <<>>, component |-> Undefined, props |-> NoProps]

NavGroup(text, items, skip) ==
    [text |-> text, link |-> Undefined, skipVersioning |-> skip, hasItems |-> TRUE,
     items |-> items, component |-> Undefined, props |-> NoProps]

NavComponent(name, userProps) ==
    [text |-> "", link |-> Undefined, skipVersioning |-> FALSE, hasItems |-> FALSE,
     items |-> <<>>, component |-> name, props |-> [userProps |-> userProps, versioningPlugin |-> <<>>]]

\* isNavItemWithChildren(item)
IsNavItemWithChildren(item) == item.hasItems

\* isNavItemWithLink(item): 'link' in item && !!item.link
IsNavItemWithLink(item) == item.link # Undefined /\ item.link # Empty

\* replaceLinksRecursive that recurses into a skipVersioning group.
RECURSIVE ReplaceLinksRecursiveIntoSkipped(_, _)
ReplaceLinksRecursiveIntoSkipped(version, item) ==
    IF IsNavItemWithChildren(item)
    THEN [item EXCEPT !.items =
            [i \in 1..Len(item.items) |-> ReplaceLinksRecursiveIntoSkipped(version, item.items[i])]]
    ELSE IF IsNavItemWithLink(item) /\ ~item.skipVersioning
    THEN [item EXCEPT !.link = PosixJoin(<<Slash, version, item.link>>)]
    ELSE item

\* replaceLinksRecursive that prefixes a link whatever its skipVersioning.
RECURSIVE ReplaceLinksRecursiveAnyLink(_, _)
ReplaceLinksRecursiveAnyLink(version, item) ==
    IF IsNavItemWithChildren(item) /\ ~item.skipVersioning
    THEN [item EXCEPT !.items =
            [i \in 1..Len(item.items) |-> ReplaceLinksRecursiveAnyLink(version, item.items[i])]]
    ELSE IF IsNavItemWithLink(item)
    THEN [item EXCEPT !.link = PosixJoin(<<Slash, version, item.link>>)]
    ELSE item

\* replaceLinksRecursive that leaves a link that already starts with the
\* version as it is.
RECURSIVE ReplaceLinksRecursiveOnce(_, _)
ReplaceLinksRecursiveOnce(version, item) ==
    IF IsNavItemWithChildren(item) /\ ~item.skipVersioning
    THEN [item EXCEPT !.items =
            [i \in 1..Len(item.items) |-> ReplaceLinksRecursiveOnce(version, item.items[i])]]
    ELSE IF IsNavItemWithLink(item) /\ ~item.skipVersioning
            /\ ~IsPrefixSeq(<<"">> \o version, item.link)
    THEN [item EXCEPT !.link = PosixJoin(<<Slash, version, item.link>>)]
    ELSE item

\* replaceLinksRecursive(version, item)
RECURSIVE ReplaceLinksRecursive(_, _)
ReplaceLinksRecursive(version, item) ==
    IF IsNavItemWithChildren(item) /\ ~item.skipVersioning
    THEN [item EXCEPT !.items =
            [i \in 1..Len(item.items) |-> ReplaceLinksRecursive(version, item.items[i])]]
    ELSE IF IsNavItemWithLink(item) /\ ~item.skipVersioning
    THEN [item EXCEPT !.link = PosixJoin(<<Slash, version, item.link>>)]
    ELSE item

\* versionsConfig.current of the default configuration
CurrentVersion == <<"latest">>

\* populateNav without the mapping of the version 'root' to ''.
PopulateNavKeepingRoot(items, version, versions) ==
    [i \in 1..Len(items) |->
        IF items[i].component # Undefined /\ items[i].component # Empty
        THEN [items[i] EXCEPT !.props.versioningPlugin =
                <<[versions |-> versions, currentVersion |-> CurrentVersion]>>]
        ELSE ReplaceLinksRecursive(version, items[i])]

\* populateNav(items, version), with state.versionsList as versions
PopulateNav(items, version, versions) ==
    LET v == IF version = Root THEN Empty ELSE version
    IN  [i \in 1..Len(items) |->
            IF items[i].component # Undefined /\ items[i].component # Empty
            THEN [items[i] EXCEPT !.props.versioningPlugin =
                    <<[versions |-> versions, currentVersion |-> CurrentVersion]>>]
            ELSE ReplaceLinksRecursive(v, items[i])]

\* The same transform on item objects held by address: hp is the heap, an
\* item's items are the addresses of its children, and a spread
\* ({...item, ...}) allocates a new object.

\* The objects of one item and of its children, allocated in hp.
RECURSIVE Allocate(_, _)
Allocate(hp, item) ==
    LET Kids[i \in 0..Len(item.items)] ==
            IF i = 0 THEN [heap |-> hp, refs |-> <<>>]
            ELSE LET made == Allocate(Kids[i - 1].heap, item.items[i])
                 IN  [heap |-> made.heap, refs |-> Append(Kids[i - 1].refs, made.ref)]
        kids == Kids[Len(item.items)]
    IN  [heap |-> Append(kids.heap, [item EXCEPT !.items = kids.refs]),
         ref  |-> Len(kids.heap) + 1]

\* The objects of an array of items.
AllocateList(items) ==
    LET Each[i \in 0..Len(items)] ==
            IF i = 0 THEN [heap |-> <<>>, refs |-> <<>>]
            ELSE LET made == Allocate(Each[i - 1].heap, items[i])
                 IN  [heap |-> made.heap, refs |-> Append(Each[i - 1].refs, made.ref)]
    IN  Each[Len(items)]

\* The item at an address, with its children in place of their addresses.
RECURSIVE Deref(_, _)
Deref(hp, ref) ==
    [hp[ref] EXCEPT !.items = [i \in 1..Len(hp[ref].items) |-> Deref(hp, hp[ref].items[i])]]

\* A replaceLinksRecursive that assigns the link of the item it is given.
RECURSIVE ReplaceLinksRecursiveInPlace(_, _, _)
ReplaceLinksRecursiveInPlace(hp, version, ref) ==
    LET item == hp[ref]
    IN  IF IsNavItemWithChildren(item) /\ ~item.skipVersioning
        THEN LET Kids[i \in 0..Len(item.items)] ==
                     IF i = 0 THEN [heap |-> hp, refs |-> <<>>]
                     ELSE LET made == ReplaceLinksRecursiveInPlace(Kids[i - 1].heap, version, item.items[i])
                          IN  [heap |-> made.heap, refs |-> Append(Kids[i - 1].refs, made.ref)]
                 kids == Kids[Len(item.items)]
             IN  [heap |-> Append(kids.heap, [item EXCEPT !.items = kids.refs]),
                  ref  |-> Len(kids.heap) + 1]
        ELSE IF IsNavItemWithLink(item) /\ ~item.skipVersioning
        THEN [heap |-> [hp EXCEPT ![ref].link = PosixJoin(<<Slash, version, item.link>>)],
              ref  |-> ref]
        ELSE [heap |-> hp, ref |-> ref]

\* replaceLinksRecursive(version, item) on the object at ref: the heap after
\* it and the address of the item returned.
RECURSIVE ReplaceLinksRecursiveObject(_, _, _)
ReplaceLinksRecursiveObject(hp, version, ref) ==
    LET item == hp[ref]
    IN  IF IsNavItemWithChildren(item) /\ ~item.skipVersioning
        THEN LET Kids[i \in 0..Len(item.items)] ==
                     IF i = 0 THEN [heap |-> hp, refs |-> <<>>]
                     ELSE LET made == ReplaceLinksRecursiveObject(Kids[i - 1].heap, version, item.items[i])
                          IN  [heap |-> made.heap, refs |-> Append(Kids[i - 1].refs, made.ref)]
                 kids == Kids[Len(item.items)]
             IN  [heap |-> Append(kids.heap, [item EXCEPT !.items = kids.refs]),
                  ref  |-> Len(kids.heap) + 1]
        ELSE IF IsNavItemWithLink(item) /\ ~item.skipVersioning
        THEN [heap |-> Append(hp, [item EXCEPT !.link = PosixJoin(<<Slash, version, item.link>>)]),
              ref  |-> Len(hp) + 1]
        ELSE [heap |-> hp, ref |-> ref]

\* populateNav(items, version) on the array of addresses refs: the heap and
\* the array passed after the call, and the array returned.
PopulateNavObjects(hp, refs, version, versions) ==
    LET v == IF version = Root THEN Empty ELSE version
        Each[i \in 0..Len(refs)] ==
            IF i = 0 THEN [heap |-> hp, refs |-> <<>>]
            ELSE LET before == Each[i - 1]
                     item   == before.heap[refs[i]]
                 IN  IF item.component # Undefined /\ item.component # Empty
                     THEN [heap |-> Append(before.heap,
                                       [item EXCEPT !.props.versioningPlugin =
                                           <<[versions |-> versions, currentVersion |-> CurrentVersion]>>]),
                           refs |-> Append(before.refs, Len(before.heap) + 1)]
                     ELSE LET made == ReplaceLinksRecursiveObject(before.heap, v, refs[i])
                          IN  [heap |-> made.heap, refs |-> Append(before.refs, made.ref)]
    IN  [heap |-> Each[Len(refs)].heap, items |-> refs, result |-> Each[Len(refs)].refs]

-----------------------------------------------------------------------------
(* Sidebar propagation *)

\* A sidebar item: link and base are Undefined when absent.
SidebarItem(text, link, base, skip, hasItems, items) ==
    [text |-> text, link |-> link, base |-> base, skipVersioning |-> skip,
     hasItems |-> hasItems, items |-> items]

\* item?.link?.startsWith('http')
IsExternalLink(link) == link # Undefined /\ StartsWith(link, <<"http">>)

\* populateSidebar that versions the items marked skipVersioning too.
PopulateSidebarIgnoringSkip(sidebar, version) ==
    LET normalizedVersion == IF version = Root THEN Empty ELSE version
    IN  [i \in 1..Len(sidebar) |->
            LET item == sidebar[i] IN
            IF IsExternalLink(item.link) THEN item
            ELSE IF ~((item.link # Undefined /\ item.link # Empty) \/ item.hasItems)
                    \/ normalizedVersion = Empty
            THEN item
            ELSE [item EXCEPT !.base =
                    SafeJoin(<<Slash, normalizedVersion,
                               IF item.base = Undefined THEN Empty ELSE item.base, Slash>>)]]

\* populateSidebar that puts the item's base before the version.
PopulateSidebarBaseFirst(sidebar, version) ==
    LET normalizedVersion == IF version = Root THEN Empty ELSE version
    IN  [i \in 1..Len(sidebar) |->
            LET item == sidebar[i] IN
            IF item.skipVersioning \/ IsExternalLink(item.link) THEN item
            ELSE IF ~((item.link # Undefined /\ item.link # Empty) \/ item.hasItems)
                    \/ normalizedVersion = Empty
            THEN item
            ELSE [item EXCEPT !.base =
                    SafeJoin(<<Slash, IF item.base = Undefined THEN Empty ELSE item.base,
                               normalizedVersion, Slash>>)]]

\* populateSidebar(sidebar, version)
PopulateSidebar(sidebar, version) ==
    LET normalizedVersion == IF version = Root THEN Empty ELSE version
    IN  [i \in 1..Len(sidebar) |->
            LET item == sidebar[i] IN
            IF item.skipVersioning \/ IsExternalLink(item.link) THEN item
            ELSE IF ~((item.link # Undefined /\ item.link # Empty) \/ item.hasItems)
                    \/ normalizedVersion = Empty
            THEN item
            ELSE [item EXCEPT !.base =
                    SafeJoin(<<Slash, normalizedVersion,
                               IF item.base = Undefined THEN Empty ELSE item.base, Slash>>)]]

-----------------------------------------------------------------------------
(* Navigation normalization *)

\* A nav configuration (NavType): an array of items, or an object from keys to
\* arrays of items.
NavArray(items)    == [isArray |-> TRUE, items |-> items, entries |-> <<>>]
NavObject(entries) == [isArray |-> FALSE, items |-> <<>>, entries |-> entries]

\* PushNav with the fallback in front of the items.
PushNavFallbackFirst(results, index, items, root, key) ==
    LET old      == IF Has(results, index) THEN Get(results, index) ELSE <<>>
        fallback == IF Has(root, key) THEN Get(root, key)
                    ELSE IF Has(root, Root) THEN Get(root, Root)
                    ELSE <<>>
    IN  Put(results, index, old \o fallback \o items)

\* results[index] ??= []; results[index].push(...items); then the fallback
\* root[key], or root.root when root has no such key.
PushNav(results, index, items, root, key) ==
    LET old      == IF Has(results, index) THEN Get(results, index) ELSE <<>>
        fallback == IF Has(root, key) THEN Get(root, key)
                    ELSE IF Has(root, Root) THEN Get(root, Root)
                    ELSE <<>>
    IN  Put(results, index, old \o items \o fallback)

\* The loop of normalizeNav over Object.entries(nav), from entry i on.
RECURSIVE NormalizeNavEntries(_, _, _, _, _)
NormalizeNavEntries(results, entries, i, prefix, root) ==
    IF i > Len(entries) THEN results
    ELSE LET key     == entries[i].k
             subRoot == IF key = Root /\ prefix = Empty THEN Root ELSE prefix
             index   == IF key = Root THEN subRoot ELSE PosixJoin(<<prefix, key>>)
         IN  NormalizeNavEntries(PushNav(results, index, entries[i].v, root, key),
                                 entries, i + 1, prefix, root)

\* normalizeNav(results, nav, prefix, root): the results object after the call.
NormalizeNav(results, nav, prefix, root) ==
    IF nav.isArray
    THEN LET index == IF prefix # Empty THEN prefix ELSE Root
         IN  PushNav(results, index, nav.items, root, index)
    ELSE NormalizeNavEntries(results, nav.entries, 1, prefix, root)

-----------------------------------------------------------------------------
(* Sidebar normalization *)

\* A sidebar configuration (SidebarType): undefined, an array of items, or an
\* object from path keys to an array of items or a single item (isArray FALSE,
\* the item alone in items).
NoSidebar              == [defined |-> FALSE, isArray |-> FALSE, items |-> <<>>, entries |-> <<>>]
SidebarArray(items)    == [defined |-> TRUE, isArray |-> TRUE, items |-> items, entries |-> <<>>]
SidebarObject(entries) == [defined |-> TRUE, isArray |-> FALSE, items |-> <<>>, entries |-> entries]
ItemList(items)        == [isArray |-> TRUE, items |-> items]
SingleItem(item)       == [isArray |-> FALSE, items |-> <<item>>]

\* The arguments of safeJoin(parent, ...segments)
Spread(segs) == [i \in 1..Len(segs) |-> <<segs[i]>>]

\* results[parentIndex] ??= {}; results[parentIndex][index] ??= [];
\* results[parentIndex][index].push(...items)
PushSidebar(results, parentIndex, index, items) ==
    LET bucket == IF Has(results, parentIndex) THEN Get(results, parentIndex) ELSE <<>>
        old    == IF Has(bucket, index) THEN Get(bucket, index) ELSE <<>>
    IN  Put(results, parentIndex, Put(bucket, index, old \o items))

\* The test that skips an entry of another locale.
SkipsEntry(lang, prefix) == lang # Empty /\ ~StartsWith(prefix, lang)

\* The loop of normalizeSidebar over Object.entries(sidebar), from entry i on.
RECURSIVE NormalizeSidebarEntries(_, _, _, _, _, _)
NormalizeSidebarEntries(results, entries, i, prefix, localesList, versionsList) ==
    IF i > Len(entries) THEN results
    ELSE LET normalizedPrefix == IF prefix = Root THEN Empty ELSE prefix
             parsed      == ExtractLocale(FilterBoolean(Split(entries[i].k)), localesList, versionsList)
             parent      == IF parsed.version # Empty
                            THEN SafeJoin(<<normalizedPrefix, parsed.version>>)
                            ELSE normalizedPrefix
             joined      == SafeJoin(<<parent>> \o Spread(parsed.rest))
             index       == IF joined = Empty THEN Slash ELSE joined
             parentIndex == IF parent = Empty THEN Root ELSE parent
             next        == IF SkipsEntry(parsed.lang, prefix) THEN results
                            ELSE PushSidebar(results, parentIndex, index, entries[i].v.items)
         IN  NormalizeSidebarEntries(next, entries, i + 1, prefix, localesList, versionsList)

\* normalizeSidebar(state, results, sidebar, prefix): the results object after
\* the call, with Object.values(state.localesMap) and state.versionsList.
NormalizeSidebar(results, sidebar, prefix, localesList, versionsList) ==
    IF ~sidebar.defined THEN results
    ELSE IF sidebar.isArray
    THEN LET normalizedPrefix == IF prefix = Root THEN Empty ELSE prefix
             index == IF normalizedPrefix # Empty THEN normalizedPrefix ELSE Slash
         IN  PushSidebar(results, prefix, index, sidebar.items)
    ELSE NormalizeSidebarEntries(results, sidebar.entries, 1, prefix, localesList, versionsList)

-----------------------------------------------------------------------------
(* State model and locale table *)

\* A locale record (LocaleInterface), in the configuration or in the output
\* table: lang, label and link are strings (Undefined when absent);
\* themeConfig is the address of its themeConfig object in the heap, 0 when
\* the record has none.
Locale(lang, label, link, themeConfig) ==
    [lang |-> lang, label |-> label, link |-> link, themeConfig |-> themeConfig]

\* {}
EmptyLocale == Locale(Undefined, Undefined, Undefined, 0)

\* A themeConfig object: nav is <<>> when the key is absent and <<nav>>
\* otherwise, sidebar is NoSidebar when absent, other tells whether the object
\* has any further key (logo, socialLinks, ...).
ThemeConfig(nav, sidebar, other) == [nav |-> nav, sidebar |-> sidebar, other |-> other]

\* Object.keys(themeConfig).length > 0
HasKeys(themeConfig) ==
    themeConfig.nav # <<>> \/ themeConfig.sidebar.defined \/ themeConfig.other

IsSeparator(c) == c = "-" \/ c = "_"

HasSeparator(a) == \E i \in 1..Len(Chars(a)) : IsSeparator(Chars(a)[i])

\* piece.split(/[-_]/)[0]
LanguageOfPiece(a) ==
    LET cs    == Chars(a)
        first == CHOOSE i \in 1..Len(cs) :
                    IsSeparator(cs[i]) /\ \A j \in 1..(i - 1) : ~IsSeparator(cs[j])
    IN  IF HasSeparator(a) THEN AtomOf(SubSeq(cs, 1, first - 1)) ELSE a

\* getLanguageOnly(locale): locale.split(/[-_]/)[0]
RECURSIVE GetLanguageOnly(_)
GetLanguageOnly(locale) ==
    IF locale = <<>> THEN <<>>
    ELSE IF HasSeparator(Head(locale)) THEN <<LanguageOfPiece(Head(locale))>>
    ELSE <<Head(locale)>> \o GetLanguageOnly(Tail(locale))

\* locales[key] = {} for every key of keys, in order
RECURSIVE PutEach(_, _, _)
PutEach(obj, keys, value) ==
    IF keys = <<>> THEN obj
    ELSE PutEach(Put(obj, Head(keys), value), Tail(keys), value)

\* The loop of initializeLocalesMap over the user's locale keys, from key i on;
\* acc holds locales and localesMap.
RECURSIVE InitializeLocaleKeys(_, _, _, _, _)
InitializeLocaleKeys(acc, userLocales, i, rootLocaleKey, versions) ==
    IF i > Len(userLocales) THEN acc
    ELSE LET key      == userLocales[i].k
             locale   == userLocales[i].v
             index    == GetLanguageOnly(IF locale.lang # Undefined THEN locale.lang ELSE key)
             mapKey   == IF locale.link # Undefined THEN locale.link ELSE index
             versioned == [n \in 1..Len(versions) |-> PosixJoin(<<index, versions[n]>>)]
             next     ==
                IF key = rootLocaleKey
                THEN [locales    |-> acc.locales,
                      localesMap |-> Put(acc.localesMap, mapKey, Root)]
                ELSE [locales    |-> Put(PutEach(acc.locales, versioned, EmptyLocale), key, EmptyLocale),
                      localesMap |-> Put(acc.localesMap, mapKey, key)]
         IN  InitializeLocaleKeys(next, userLocales, i + 1, rootLocaleKey, versions)

\* StateModel.initializeLocalesMap, on the locales and localesMap the
\* constructor left empty: the locales table and localesMap after it.
InitializeLocalesMap(userLocales, versions) ==
    LET start == [locales |-> <<Entry(Root, EmptyLocale)>>, localesMap |-> <<>>]
        rootLocaleKey == IF Has(userLocales, Root) THEN Root ELSE userLocales[1].k
        keyed == IF Len(userLocales) > 0
                 THEN InitializeLocaleKeys(start, userLocales, 1, rootLocaleKey, versions)
                 ELSE start
    IN  [locales    |-> PutEach(keyed.locales, versions, EmptyLocale),
         localesMap |-> keyed.localesMap]

\* generateLocaleLink(isRoot, lang)
GenerateLocaleLink(isRoot, lang) ==
    IF isRoot THEN Slash ELSE <<"">> \o GetLanguageOnly(lang) \o <<"">>

\* createSanitizedLocale(sourceLocale): the clone, and the heap with the copy
\* of a non-empty themeConfig, stripped of nav and sidebar, allocated in it.
CreateSanitizedLocale(hp, sourceLocale) ==
    IF sourceLocale.themeConfig # 0 /\ HasKeys(hp[sourceLocale.themeConfig])
    THEN [locale |-> [sourceLocale EXCEPT !.themeConfig = Len(hp) + 1],
          heap   |-> Append(hp, ThemeConfig(<<>>, NoSidebar, hp[sourceLocale.themeConfig].other))]
    ELSE [locale |-> sourceLocale, heap |-> hp]

\* createVersionedLocale without the label placeholder
CreateVersionedLocaleKeepingLabel(hp, baseLocale, isRoot, lang) ==
    LET cloned == CreateSanitizedLocale(hp, baseLocale)
    IN  [locale |-> [cloned.locale EXCEPT !.link = GenerateLocaleLink(isRoot, lang)],
         heap   |-> cloned.heap]

\* createVersionedLocale(baseLocale, isRoot, lang)
CreateVersionedLocale(hp, baseLocale, isRoot, lang) ==
    LET cloned == CreateSanitizedLocale(hp, baseLocale)
    IN  [locale |-> [cloned.locale EXCEPT !.label = <<" ">>, !.link = GenerateLocaleLink(isRoot, lang)],
         heap   |-> cloned.heap]

\* The loop of parseLocale over versionsList, from version n on; st holds the
\* locales table and the heap.
RECURSIVE ParseLocaleVersions(_, _, _, _, _, _, _)
ParseLocaleVersions(st, versions, n, key, baseLocale, isRoot, lang) ==
    IF n > Len(versions) THEN st
    ELSE LET versionedKey == IF isRoot THEN versions[n] ELSE PosixJoin(<<key, versions[n]>>)
             made == CreateVersionedLocale(st.heap, baseLocale, isRoot, lang)
         IN  ParseLocaleVersions([locales |-> Put(st.locales, versionedKey, made.locale),
                                  heap    |-> made.heap],
                                 versions, n + 1, key, baseLocale, isRoot, lang)

\* The source record parseLocale takes for the entry [key, index] of localesMap;
\* Object.assign({}, undefined) is {}.
SourceLocale(userLocales, key, index) ==
    LET name == IF Has(userLocales, Root) THEN index ELSE key
    IN  IF Has(userLocales, name) THEN Get(userLocales, name) ELSE EmptyLocale

\* The loop of parseLocale over Object.entries(localesMap), from entry i on.
RECURSIVE ParseLocaleEntries(_, _, _, _, _)
ParseLocaleEntries(st, userLocales, lmap, versions, i) ==
    IF i > Len(lmap) THEN st
    ELSE LET key    == lmap[i].k
             index  == lmap[i].v
             isRoot == index = Root
             made   == CreateSanitizedLocale(st.heap, SourceLocale(userLocales, key, index))
             lang   == IF made.locale.lang # Undefined THEN made.locale.lang ELSE Empty
             baseLocale == [made.locale EXCEPT !.link = GenerateLocaleLink(isRoot, lang)]
             based  == [locales |-> Put(st.locales, index, baseLocale), heap |-> made.heap]
         IN  ParseLocaleEntries(
                ParseLocaleVersions(based, versions, 1, key, baseLocale, isRoot, lang),
                userLocales, lmap, versions, i + 1)

\* parseLocale(): the locales table and the heap after the call.
ParseLocale(st, userLocales, lmap, versions) ==
    ParseLocaleEntries(st, userLocales, lmap, versions, 1)

-----------------------------------------------------------------------------
(* Navigation and sidebar stages *)

\* versionSwitcher(versionsConfig, versions, current): <<>> for undefined,
\* else the one dropdown item, as the tests of the function fix it.
VersionSwitcher(versionSwitcher, versions) ==
    IF versionSwitcher = <<>> THEN <<>>
    ELSE LET latest == IF versionSwitcher[1].includeCurrentVersion
                       THEN <<NavLink("latest (latest)", Slash, TRUE)>>
                       ELSE <<>>
             others == [n \in 1..Len(versions) |->
                          NavLink(versions[n][1], <<"">> \o versions[n] \o <<"">>, TRUE)]
         IN  <<NavGroup(versionSwitcher[1].text, latest \o others, FALSE)>>

\* locales[locale].themeConfig?.nav ?? []
NavOf(hp, locale) ==
    IF locale.themeConfig # 0 /\ hp[locale.themeConfig].nav # <<>>
    THEN hp[locale.themeConfig].nav[1]
    ELSE NavArray(<<>>)

\* The loop of normalizeNavs over the user's locale keys, from key i on.
RECURSIVE NormalizeNavsLocales(_, _, _, _, _, _)
NormalizeNavsLocales(results, userLocales, i, hp, lmap, globalResults) ==
    IF i > Len(userLocales) THEN results
    ELSE LET locale == userLocales[i].k
             prefix == IF locale = Root \/ (Has(lmap, locale) /\ Get(lmap, locale) = Root)
                       THEN Root ELSE locale
         IN  NormalizeNavsLocales(
                NormalizeNav(results, NavOf(hp, userLocales[i].v), prefix, globalResults),
                userLocales, i + 1, hp, lmap, globalResults)

\* normalizeNavs(state)
NormalizeNavs(config, hp, lmap, versions) ==
    LET seeded == <<Entry(Root, VersionSwitcher(config.versionSwitcher, versions))>>
        globalResults ==
            IF config.themeConfig.nav # <<>>
            THEN NormalizeNav(seeded, config.themeConfig.nav[1], Empty, <<>>)
            ELSE seeded
    IN  IF Len(config.locales) = 0 THEN globalResults
        ELSE NormalizeNavsLocales(<<Entry(Root, <<>>)>>, config.locales, 1, hp,
                                  lmap, globalResults)

\* locale.themeConfig ??= {} for entry i of the locales table.
EnsureThemeConfig(st, i) ==
    IF st.locales[i].v.themeConfig # 0 THEN st
    ELSE [locales |-> [st.locales EXCEPT ![i].v.themeConfig = Len(st.heap) + 1],
          heap    |-> Append(st.heap, ThemeConfig(<<>>, NoSidebar, FALSE))]

\* A write of the nav that replaces the whole themeConfig object.
WriteNavReplacing(hp, themeConfig, nav) ==
    [hp EXCEPT ![themeConfig] = ThemeConfig(<<NavArray(nav)>>, NoSidebar, FALSE)]

\* locale.themeConfig.nav = nav
WriteNav(hp, themeConfig, nav) ==
    [hp EXCEPT ![themeConfig].nav = <<NavArray(nav)>>]

\* The loop of parseNavs over Object.entries(locales), from entry i on.
RECURSIVE ParseNavsEntries(_, _, _, _)
ParseNavsEntries(st, navs, versions, i) ==
    IF i > Len(st.locales) THEN st
    ELSE LET key     == st.locales[i].k
             nav     == IF Has(navs, key) THEN Get(navs, key) ELSE Get(navs, Root)
             ensured == EnsureThemeConfig(st, i)
             written == WriteNav(ensured.heap, ensured.locales[i].v.themeConfig,
                                 PopulateNav(nav, key, versions))
         IN  ParseNavsEntries([locales |-> ensured.locales, heap |-> written], navs, versions, i + 1)

\* parseNavs(): the locales table and the heap after the call.
ParseNavs(st, config, lmap, versions) ==
    ParseNavsEntries(st, NormalizeNavs(config, st.heap, lmap, versions), versions, 1)

\* locale.themeConfig?.sidebar
SidebarOf(hp, locale) ==
    IF locale.themeConfig # 0 THEN hp[locale.themeConfig].sidebar ELSE NoSidebar

\* The calls of normalizeSidebar that normalizeSidebars makes, in order: for
\* every locale of the configuration the global sidebar and then the locale's
\* own, both under the locale's key; without locales, the global sidebar
\* under 'root'.
SidebarCalls(userLocales, hp, globalSidebar) ==
    IF Len(userLocales) > 0
    THEN [n \in 1..(2 * Len(userLocales)) |->
            LET i == (n + 1) \div 2 IN
            [sidebar |-> IF n % 2 = 1 THEN globalSidebar ELSE SidebarOf(hp, userLocales[i].v),
             prefix  |-> userLocales[i].k]]
    ELSE <<[sidebar |-> globalSidebar, prefix |-> Root]>>

\* The calls of normalizeSidebar by normalizeSidebars, from call n on.
RECURSIVE NormalizeSidebarsLocales(_, _, _, _, _)
NormalizeSidebarsLocales(normalized, calls, n, localesList, versions) ==
    IF n > Len(calls) THEN normalized
    ELSE NormalizeSidebarsLocales(
            NormalizeSidebar(normalized, calls[n].sidebar, calls[n].prefix, localesList, versions),
            calls, n + 1, localesList, versions)

\* The bucket an index without sidebar inherits: the entries of parent, from
\* entry j on, re-keyed under index.
RECURSIVE InheritBucket(_, _, _, _, _, _)
InheritBucket(bucket, parent, j, index, localesList, versions) ==
    IF j > Len(parent) THEN bucket
    ELSE LET pieces == FilterBoolean(Split(parent[j].k))
             rest     == ExtractLocale(pieces, localesList, versions).rest
         IN  InheritBucket(Put(bucket, SafeJoin(<<index>> \o Spread(rest)), parent[j].v),
                           parent, j + 1, index, localesList, versions)

\* The second loop of normalizeSidebars, over Object.keys(vitepressConfig.locales),
\* from key i on.
RECURSIVE InheritSidebars(_, _, _, _, _)
InheritSidebars(normalized, indexes, i, localesList, versions) ==
    IF i > Len(indexes) THEN normalized
    ELSE LET index     == indexes[i]
             lang      == ExtractLocale(Split(index), localesList, versions).lang
             parentKey == IF lang # Empty THEN lang ELSE Root
             next      ==
                IF Has(normalized, index) \/ ~Has(normalized, parentKey) THEN normalized
                ELSE Put(normalized, index,
                         InheritBucket(<<>>, Get(normalized, parentKey), 1, index, localesList, versions))
         IN  InheritSidebars(next, indexes, i + 1, localesList, versions)

\* normalizeSidebars(state)
NormalizeSidebars(config, hp, table, lmap, versions) ==
    InheritSidebars(
        NormalizeSidebarsLocales(<<>>, SidebarCalls(config.locales, hp, config.themeConfig.sidebar),
                                 1, Values(lmap), versions),
        Keys(table), 1, Values(lmap), versions)

\* The loop of parseSidebars over Object.entries(sidebars[key]), from entry j
\* on: the entries of locale.themeConfig.sidebar.
RECURSIVE PopulateSidebarEntries(_, _, _, _, _)
PopulateSidebarEntries(entries, bucket, j, localesList, versions) ==
    IF j > Len(bucket) THEN entries
    ELSE LET index  == bucket[j].k
             parsed == ExtractLocale(Split(index), localesList, versions)
             items  == PopulateSidebar(bucket[j].v, SafeJoin(<<parsed.lang, parsed.version>>))
         IN  PopulateSidebarEntries(Put(entries, index, ItemList(items)), bucket, j + 1,
                                    localesList, versions)

\* The loop of parseSidebars over Object.entries(locales), from entry i on.
RECURSIVE ParseSidebarsEntries(_, _, _, _, _)
ParseSidebarsEntries(st, sidebars, localesList, versions, i) ==
    IF i > Len(st.locales) THEN st
    ELSE LET key == st.locales[i].k IN
         IF ~Has(sidebars, key) THEN ParseSidebarsEntries(st, sidebars, localesList, versions, i + 1)
         ELSE LET ensured == EnsureThemeConfig(st, i)
                  address == ensured.locales[i].v.themeConfig
                  current == ensured.heap[address].sidebar
                  start   == IF ~current.defined \/ current.isArray THEN <<>> ELSE current.entries
                  filled  == PopulateSidebarEntries(start, Get(sidebars, key), 1, localesList, versions)
              IN  ParseSidebarsEntries(
                     [locales |-> ensured.locales,
                      heap    |-> [ensured.heap EXCEPT ![address].sidebar = SidebarObject(filled)]],
                     sidebars, localesList, versions, i + 1)

\* parseSidebars(): the locales table and the heap after the call.
ParseSidebars(st, config, lmap, versions) ==
    ParseSidebarsEntries(st,
                         NormalizeSidebars(config, st.heap, st.locales, lmap, versions),
                         Values(lmap), versions, 1)

\* vitepressConfig.rewrites as the constructor leaves it ({}), and the
\* function parseRoutesComponent installs, with the lists it captures.
NoRewrites == [kind |-> "object", localesPrefix |-> <<>>, localesList |-> <<>>, versionsList |-> <<>>]

ParseRoutesComponent(lmap, versions) ==
    [kind |-> "function", localesPrefix |-> Keys(lmap), localesList |-> Keys(lmap),
     versionsList |-> versions]

\* A hook that puts the version before the locale.
RewritesHookVersionFirst(source, version, locale) == PosixJoin(<<version, locale, source>>)

\* rewritesHook(source, version, locale), the default hook
RewritesHook(source, version, locale) == PosixJoin(<<locale, version, source>>)

\* state.versionsConfig.hooks.rewritesHook(source, version, locale): the
\* default hook, or a hook of the user, which the model leaves uninterpreted.
CallHook(hook, source, version, locale) ==
    IF hook = "rewritesHook" THEN RewritesHook(source, version, locale)
    ELSE [hook |-> hook, source |-> source, version |-> version, locale |-> locale]

\* extractLocale(segments, localesList, versionsList) of the rewrites
\* component: the returned {lang, version} and the array as the call leaves it.
RewritesExtractLocale(segs, localesList, versionsList) ==
    LET hasVer  == segs # <<>> /\ Includes(versionsList, segs[1])
        s1      == IF hasVer THEN Tail(segs) ELSE segs
        hasLang == s1 # <<>> /\ Includes(localesList, s1[1])
    IN  [version |-> IF hasVer THEN <<segs[1]>> ELSE Empty,
         lang    |-> IF hasLang THEN <<s1[1]>> ELSE Empty,
         rest    |-> IF hasLang THEN Tail(s1) ELSE s1]

\* localesPrefix.find(prefix => path.startsWith(prefix + '/')): the matching
\* prefixes, in order.
RECURSIVE FindPrefixes(_, _)
FindPrefixes(localesPrefix, path) ==
    IF localesPrefix = <<>> THEN <<>>
    ELSE (IF StartsWith(path, Append(Head(localesPrefix), "")) THEN <<Head(localesPrefix)>> ELSE <<>>)
            \o FindPrefixes(Tail(localesPrefix), path)

\* state.localesMap[key] === 'root' ? '' : key
LocaleOfKey(lmap, key) == IF Has(lmap, key) /\ Get(lmap, key) = Root THEN Empty ELSE key

\* The function parseRoutesComponent installs as vitepressConfig.rewrites,
\* applied to id.
Rewrites(rw, lmap, hook, id) ==
    IF StartsWith(id, <<"src", "">>)
    THEN LET path  == Replace(id, <<"src", "">>)
             found == FindPrefixes(rw.localesPrefix, path)
         IN  IF found # <<>> /\ found[1] # Empty
             THEN CallHook(hook, Replace(path, Append(found[1], "")), Empty,
                           LocaleOfKey(lmap, found[1]))
             ELSE path
    ELSE IF StartsWith(id, <<"archive", "">>)
    THEN LET path == Replace(id, <<"archive", "">>)
             e    == RewritesExtractLocale(Split(path), rw.localesList, rw.versionsList)
         IN  CallHook(hook, JoinSlash(e.rest), e.version, LocaleOfKey(lmap, e.lang))
    ELSE id

\* localesPrefix[localesPrefix.findIndex(item => file.startsWith(item))]:
\* the matching prefixes, in order.
RECURSIVE FindStarts(_, _)
FindStarts(localesPrefix, file) ==
    IF localesPrefix = <<>> THEN <<>>
    ELSE (IF StartsWith(file, Head(localesPrefix)) THEN <<Head(localesPrefix)>> ELSE <<>>)
            \o FindStarts(Tail(localesPrefix), file)

\* One file of the loops of the map-based parseRoutesComponent: the entry it
\* stores in the result.
RouteOfFile(result, prefix, folder, file, lmap, hook) ==
    LET found  == FindStarts(Keys(lmap), file)
        locale == IF found = <<>> THEN Empty ELSE LocaleOfKey(lmap, found[1])
        source == Replace(file, IF found = <<>> THEN <<"undefined", "">> ELSE Append(found[1], ""))
    IN  Put(result, PosixJoin(<<prefix, folder, file>>), CallHook(hook, source, folder, locale))

\* The loops of the map-based parseRoutesComponent over Object.entries(fileMap)
\* and the files of each folder, from file n of folder i on.
RECURSIVE RoutesOfFiles(_, _, _, _, _, _, _, _)
RoutesOfFiles(result, fileMap, i, n, sources, archive, lmap, hook) ==
    IF i > Len(fileMap) THEN result
    ELSE IF n > Len(fileMap[i].v)
    THEN RoutesOfFiles(result, fileMap, i + 1, 1, sources, archive, lmap, hook)
    ELSE RoutesOfFiles(RouteOfFile(result, IF fileMap[i].k = Empty THEN sources ELSE archive,
                                   fileMap[i].k, fileMap[i].v[n], lmap, hook),
                       fileMap, i, n + 1, sources, archive, lmap, hook)

\* parseRoutesComponent() in its map-based form: the object it installs as
\* vitepressConfig.rewrites.
ParseRoutesComponentMap(fileMap, sources, archive, lmap, hook) ==
    RoutesOfFiles(<<>>, fileMap, 1, 1, sources, archive, lmap, hook)

-----------------------------------------------------------------------------
(* Specification of the path-key parser: every array of at most MaxSegs    *)
(* pieces against every pair of known lists.                               *)

KeyTokens == {"fr", "en", "v1", "guide", "api"}

RECURSIVE SeqsUpTo(_, _)
SeqsUpTo(S, n) ==
    IF n = 0 THEN {<<>>}
    ELSE LET shorter == SeqsUpTo(S, n - 1)
         IN  shorter \cup {Append(s, x) : s \in shorter, x \in S}

KeyLocaleLists  == {<<>>, <<Root>>, <<Root, <<"fr">>>>, <<Root, <<"fr">>, <<"en">>>>, <<Root, <<"v1">>>>}
KeyVersionLists == {<<>>, <<<<"v1">>>>, <<<<"v1">>, <<"v2">>>>, <<<<"v1">>, <<"fr">>>>}

InjIdle ==
    /\ injectables = <<>> /\ singletons = <<>> /\ injObjects = <<>> /\ injLog = <<>>
    /\ injPc = "idle"

FsIdle ==
    /\ disk = {} /\ diskBefore = {} /\ diskWrites = <<>> /\ ctorConfiguration = <<>>
    /\ ctorInstance = <<>> /\ ctorPc = "idle"

ObjIdle ==
    /\ objTarget = <<>> /\ objSource = <<>> /\ objBefore = <<>> /\ objResult = <<>>
    /\ objPc = "idle"

RwIdle ==
    /\ rwState = <<>> /\ rwId = <<>> /\ rwFileMap = <<>> /\ rwMap = <<>>
    /\ rwHookArgs = <<>> /\ rwResult = <<>> /\ rwPc = "idle"

StateIdle ==
    /\ configuration = <<>> /\ archiveFolders = <<>> /\ stateVersionsList = <<>>
    /\ localesMap = <<>> /\ locales = <<>> /\ heap = <<>> /\ rewrites = <<>>
    /\ ran = <<>> /\ reference = <<>> /\ pc = "idle"

NormIdle ==
    /\ normNav = NavArray(<<>>) /\ normSidebar = NoSidebar /\ normPrefix = Empty
    /\ normRoot = <<>> /\ normLocales = <<>> /\ normVersions = <<>>
    /\ normBefore = <<>> /\ normResults = <<>> /\ normPc = "idle"

PopIdle ==
    /\ navItems = <<>> /\ sidebarItems = <<>> /\ popVersion = Empty /\ popVersions = <<>>
    /\ popResult = <<>> /\ popAgain = <<>> /\ popPc = "idle"
    /\ navHeap = <<>> /\ navHeapBefore = <<>> /\ navRefs = <<>> /\ navResultRefs = <<>>

KeyIdle ==
    /\ segments = <<>> /\ keyInput = <<>> /\ keyLocales = <<>> /\ keyVersions = <<>>
    /\ keyResult = [lang |-> Empty, version |-> Empty]
    /\ keyPc = "idle"

KeyInit ==
    /\ segments \in SeqsUpTo(KeyTokens, MaxSegs)
    /\ keyInput = segments
    /\ keyLocales \in KeyLocaleLists
    /\ keyVersions \in KeyVersionLists
    /\ keyResult = [lang |-> Empty, version |-> Empty]
    /\ keyPc = "call"
    /\ PopIdle /\ NormIdle /\ StateIdle /\ RwIdle /\ ObjIdle /\ FsIdle /\ InjIdle

CallExtractLocale ==
    /\ keyPc = "call"
    /\ LET r == ExtractLocale(segments, keyLocales, keyVersions)
       IN  /\ keyResult' = [lang |-> r.lang, version |-> r.version]
           /\ segments' = r.rest
    /\ keyPc' = "done"
    /\ UNCHANGED <<keyInput, keyLocales, keyVersions>>
    /\ UNCHANGED <<popVars, normVars, stateVars, rwVars, objVars, fsVars, injVars>>

KeyNext == CallExtractLocale

SpecKey == KeyInit /\ [][KeyNext]_vars

-----------------------------------------------------------------------------
(* Specification of propagation: populateNav and populateSidebar applied   *)
(* to every list of the item sets below, for every version argument.       *)

Guide    == <<"", "guide", "">>
External == <<"https:", "", "example.com">>

NavLeaves ==
    {NavLink("t", l, sk) : l \in {Guide, External, <<"api">>, <<"..", "api">>}, sk \in BOOLEAN}
        \cup {NavComponent(<<"VersionSwitcher">>, "none")}

NavGroups ==
    {NavGroup("g", c, sk) : c \in SeqsUpTo(NavLeaves, MaxChildren) \ {<<>>}, sk \in BOOLEAN}

NavNested == {NavGroup("gg", <<g>>, sk) : g \in NavGroups, sk \in BOOLEAN}

NavItemSet == NavLeaves \cup NavGroups \cup NavNested

NavLists == {<<x>> : x \in NavItemSet} \cup {<<x, y>> : x \in NavLeaves, y \in NavItemSet}

SidebarLeaves == {SidebarItem("c", <<"", "ref">>, Undefined, sk, FALSE, <<>>) : sk \in BOOLEAN}

SidebarItemSet ==
    {SidebarItem("s", l, b, sk, FALSE, <<>>) :
        l \in {Undefined, Empty, <<"", "ref">>, External},
        b \in {Undefined, <<"", "api">>, <<"api", "">>}, sk \in BOOLEAN}
    \cup
    {SidebarItem("s", l, b, sk, TRUE, c) :
        l \in {Undefined, <<"", "ref">>, External},
        b \in {Undefined, <<"", "api">>}, sk \in BOOLEAN,
        c \in SeqsUpTo(SidebarLeaves, MaxChildren)}

SidebarLists ==
    {<<x>> : x \in SidebarItemSet} \cup {<<x, y>> : x \in SidebarLeaves, y \in SidebarItemSet}

PopVersionArgs == {Empty, Root, <<"v1">>, <<"fr">>, <<"fr", "v1">>}

PopInit ==
    /\ popVersion \in PopVersionArgs
    /\ popResult = <<>>
    /\ popAgain = <<>>
    /\ \/ /\ popPc = "nav"
          /\ navItems \in NavLists
          /\ popVersions \in {<<>>, <<<<"v1">>>>}
          /\ sidebarItems = <<>>
       \/ /\ popPc = "sidebar"
          /\ sidebarItems \in SidebarLists
          /\ popVersions = <<>>
          /\ navItems = <<>>
    /\ navHeap = AllocateList(navItems).heap
    /\ navHeapBefore = navHeap
    /\ navRefs = AllocateList(navItems).refs
    /\ navResultRefs = <<>>
    /\ KeyIdle /\ NormIdle /\ StateIdle /\ RwIdle /\ ObjIdle /\ FsIdle /\ InjIdle

\* populateNav(items, version)
CallPopulateNav ==
    /\ popPc = "nav"
    /\ popResult' = PopulateNav(navItems, popVersion, popVersions)
    /\ LET r == PopulateNavObjects(navHeap, navRefs, popVersion, popVersions)
       IN  /\ navHeap' = r.heap
           /\ navRefs' = r.items
           /\ navResultRefs' = r.result
    /\ popPc' = "navDone"
    /\ UNCHANGED <<navItems, sidebarItems, popVersion, popVersions, popAgain, navHeapBefore>>
    /\ UNCHANGED <<keyVars, normVars, stateVars, rwVars, objVars, fsVars, injVars>>

\* populateSidebar(sidebar, version)
CallPopulateSidebar ==
    /\ popPc = "sidebar"
    /\ popResult' = PopulateSidebar(sidebarItems, popVersion)
    /\ popPc' = "sidebarDone"
    /\ UNCHANGED <<navItems, sidebarItems, popVersion, popVersions, popAgain>>
    /\ UNCHANGED <<navHeap, navHeapBefore, navRefs, navResultRefs>>
    /\ UNCHANGED <<keyVars, normVars, stateVars, rwVars, objVars, fsVars, injVars>>

\* populateNav(populateNav(items, version), version)
CallPopulateNavAgain ==
    /\ popPc = "navDone"
    /\ popAgain' = PopulateNav(popResult, popVersion, popVersions)
    /\ popPc' = "navTwice"
    /\ UNCHANGED <<navItems, sidebarItems, popVersion, popVersions, popResult>>
    /\ UNCHANGED <<navHeap, navHeapBefore, navRefs, navResultRefs>>
    /\ UNCHANGED <<keyVars, normVars, stateVars, rwVars, objVars, fsVars, injVars>>

\* populateSidebar(populateSidebar(sidebar, version), version)
CallPopulateSidebarAgain ==
    /\ popPc = "sidebarDone"
    /\ popAgain' = PopulateSidebar(popResult, popVersion)
    /\ popPc' = "sidebarTwice"
    /\ UNCHANGED <<navItems, sidebarItems, popVersion, popVersions, popResult>>
    /\ UNCHANGED <<navHeap, navHeapBefore, navRefs, navResultRefs>>
    /\ UNCHANGED <<keyVars, normVars, stateVars, rwVars, objVars, fsVars, injVars>>

PopNext ==
    \/ CallPopulateNav
    \/ CallPopulateSidebar
    \/ CallPopulateNavAgain
    \/ CallPopulateSidebarAgain

SpecPopulate == PopInit /\ [][PopNext]_vars

-----------------------------------------------------------------------------
(* Specification of normalization: one call of normalizeNav or of           *)
(* normalizeSidebar on a results object, as normalizeNavs and               *)
(* normalizeSidebars make them for one locale.                              *)

LocaleNavItems == {NavLink("L1", Guide, FALSE), NavLink("L2", <<"api">>, FALSE)}
GlobalNavItem(t) == NavLink(t, Slash, FALSE)
EarlierNavItem == NavLink("X", Guide, FALSE)

NormNavLists == SeqsUpTo(LocaleNavItems, MaxNavItems)

NormNavArgs ==
    {NavArray(l) : l \in NormNavLists}
    \cup {NavObject(<<Entry(k, l)>>) : k \in {Root, <<"v1">>}, l \in NormNavLists}
    \cup {NavObject(<<Entry(Root, l1), Entry(<<"v1">>, l2)>>) : l1 \in NormNavLists, l2 \in NormNavLists}

\* The global results: root alone (empty, or the switcher and the global nav),
\* or with the keys of a global nav object.
NormRootArgs ==
    { <<>>,
      <<Entry(Root, <<>>)>>,
      <<Entry(Root, <<GlobalNavItem("G1")>>)>>,
      <<Entry(Root, <<GlobalNavItem("S"), GlobalNavItem("G1")>>), Entry(<<"v1">>, <<GlobalNavItem("G2")>>)>>,
      <<Entry(Root, <<GlobalNavItem("G1")>>), Entry(<<"fr">>, <<GlobalNavItem("G2")>>)>> }

\* The results object: { root: [] } as normalizeNavs creates it, or with what
\* the locales normalized before have stored.
NormNavResults ==
    { <<Entry(Root, <<>>)>>,
      <<Entry(Root, <<>>), Entry(<<"en">>, <<EarlierNavItem>>)>>,
      <<Entry(Root, <<EarlierNavItem>>)>>,
      <<Entry(Root, <<>>), Entry(<<"fr">>, <<EarlierNavItem>>)>> }

\* The entries a path-keyed sidebar is drawn from; the text of an item names
\* the entry it comes from.
SidebarEntryPool ==
    { Entry(<<"", "guide", "">>, ItemList(<<SidebarItem("guide", <<"", "ref">>, Undefined, FALSE, FALSE, <<>>)>>)),
      Entry(Slash,               SingleItem(SidebarItem("slash", <<"", "ref">>, Undefined, FALSE, FALSE, <<>>))),
      Entry(<<"v1", "guide">>,   ItemList(<<SidebarItem("v1", <<"", "ref">>, Undefined, FALSE, FALSE, <<>>)>>)),
      Entry(<<"fr", "guide">>,   ItemList(<<SidebarItem("fr", <<"", "ref">>, Undefined, FALSE, FALSE, <<>>)>>)),
      Entry(<<"fr", "v1", "api">>, ItemList(<<SidebarItem("fr/v1", <<"", "ref">>, Undefined, FALSE, FALSE, <<>>)>>)),
      Entry(<<"fr-CA", "guide">>, ItemList(<<SidebarItem("fr-CA", <<"", "ref">>, Undefined, FALSE, FALSE, <<>>)>>)),
      Entry(<<"en", "guide">>,   SingleItem(SidebarItem("en", <<"", "ref">>, Undefined, FALSE, FALSE, <<>>))) }

DistinctKeys(entries) ==
    \A i, j \in 1..Len(entries) : i # j => entries[i].k # entries[j].k

NormSidebarArgs ==
    {NoSidebar, SidebarArray(<<SidebarItem("array", <<"", "ref">>, Undefined, FALSE, FALSE, <<>>)>>)}
    \cup {SidebarObject(e) : e \in {x \in SeqsUpTo(SidebarEntryPool, MaxEntries) : DistinctKeys(x)}}

EarlierSidebarItem == SidebarItem("earlier", <<"", "ref">>, Undefined, FALSE, FALSE, <<>>)

NormSidebarResults ==
    { <<>>, <<Entry(<<"en">>, <<Entry(<<"en">>, <<EarlierSidebarItem>>)>>)>> }

\* Object.values(state.localesMap): 'root' for the root locale and the user's
\* key for every other one.
NormLocaleLists ==
    { <<Root>>, <<Root, <<"fr">>>>, <<Root, <<"fr">>, <<"fr-CA">>>>, <<Root, <<"en">>, <<"fr">>>> }

NormInit ==
    /\ \/ /\ normPc = "nav"
          /\ normNav \in NormNavArgs
          /\ normPrefix \in {Empty, Root, <<"fr">>}
          /\ normRoot \in NormRootArgs
          /\ normBefore \in NormNavResults
          /\ normSidebar = NoSidebar /\ normLocales = <<>> /\ normVersions = <<>>
       \/ /\ normPc = "sidebar"
          /\ normSidebar \in NormSidebarArgs
          /\ normPrefix \in {Root, <<"en">>, <<"fr">>, <<"fr-CA">>}
          /\ normLocales \in NormLocaleLists
          /\ normVersions \in {<<>>, <<<<"v1">>>>, <<<<"v1">>, <<"v2">>>>}
          /\ normBefore \in NormSidebarResults
          /\ normNav = NavArray(<<>>) /\ normRoot = <<>>
    /\ normResults = normBefore
    /\ KeyIdle /\ PopIdle /\ StateIdle /\ RwIdle /\ ObjIdle /\ FsIdle /\ InjIdle

CallNormalizeNav ==
    /\ normPc = "nav"
    /\ normResults' = NormalizeNav(normResults, normNav, normPrefix, normRoot)
    /\ normPc' = "navDone"
    /\ UNCHANGED <<normNav, normSidebar, normPrefix, normRoot, normLocales, normVersions, normBefore>>
    /\ UNCHANGED <<keyVars, popVars, stateVars, rwVars, objVars, fsVars, injVars>>

CallNormalizeSidebar ==
    /\ normPc = "sidebar"
    /\ normResults' = NormalizeSidebar(normResults, normSidebar, normPrefix, normLocales, normVersions)
    /\ normPc' = "sidebarDone"
    /\ UNCHANGED <<normNav, normSidebar, normPrefix, normRoot, normLocales, normVersions, normBefore>>
    /\ UNCHANGED <<keyVars, popVars, stateVars, rwVars, objVars, fsVars, injVars>>

NormNext == CallNormalizeNav \/ CallNormalizeSidebar

SpecNormalize == NormInit /\ [][NormNext]_vars

-----------------------------------------------------------------------------
(* Specification of the pipeline: a StateModel constructed on a              *)
(* configuration, init(), then the four stages of defineVersionedConfig,    *)
(* each once, in any order.                                                 *)

\* The locales a configuration is drawn from: key, lang, label, link and the
\* themeConfig (<<>> when the locale has none).
LocaleProfile(key, lang, label, link, theme) ==
    [k |-> key, lang |-> lang, label |-> label, link |-> link, theme |-> theme]

LocaleNav(t) == NavLink(t, Guide, FALSE)

LocaleSidebar ==
    SidebarObject(<<Entry(<<"", "guide", "">>,
                          ItemList(<<SidebarItem("C1", <<"", "ref">>, Undefined, FALSE, FALSE, <<>>)>>)),
                    Entry(<<"v1", "guide">>,
                          SingleItem(SidebarItem("C2", <<"", "ref">>, Undefined, FALSE, FALSE, <<>>)))>>)

LocaleProfiles ==
    { LocaleProfile(Root, <<"en-US">>, <<"English">>, Undefined,
                    <<ThemeConfig(<<NavArray(<<LocaleNav("R1")>>)>>, NoSidebar, FALSE)>>),
      LocaleProfile(Root, <<"en-US">>, <<"English">>, Undefined, <<>>),
      LocaleProfile(<<"en">>, <<"en-US">>, <<"English">>, Undefined, <<>>),
      LocaleProfile(<<"fr">>, <<"fr">>, <<"Francais">>, Undefined,
                    <<ThemeConfig(<<NavArray(<<LocaleNav("F1")>>)>>, NoSidebar, TRUE)>>),
      LocaleProfile(<<"fr">>, <<"fr">>, <<"Francais">>, Undefined,
                    <<ThemeConfig(<<NavArray(<<LocaleNav("F1")>>)>>, NoSidebar, FALSE)>>),
      LocaleProfile(<<"fr">>, <<"fr">>, <<"Francais">>, Undefined,
                    <<ThemeConfig(<<NavObject(<<Entry(Root, <<LocaleNav("F1")>>),
                                                Entry(<<"v1">>, <<LocaleNav("F2")>>)>>)>>,
                                  NoSidebar, TRUE)>>),
      LocaleProfile(<<"fr-CA">>, <<"fr-CA">>, <<"Canadien">>, Undefined,
                    <<ThemeConfig(<<>>, LocaleSidebar, TRUE)>>),
      LocaleProfile(<<"en_GB">>, <<"en_GB">>, <<"British">>, Undefined, <<>>),
      LocaleProfile(<<"zh">>, <<"zh-Hans-CN">>, <<"Chinese">>, Undefined, <<>>),
      LocaleProfile(<<"de">>, Undefined, <<"Deutsch">>, <<"", "de", "">>,
                    <<ThemeConfig(<<>>, NoSidebar, FALSE)>>) }

LocaleProfileLists ==
    {ps \in SeqsUpTo(LocaleProfiles, MaxLocales) : DistinctKeys(ps)}

\* The locales object of a configuration and the themeConfig objects it
\* refers to, allocated in the order of the locales.
AddressOf(ps, i) == Cardinality({j \in 1..i : ps[j].theme # <<>>})

LocalesOf(ps) ==
    [i \in 1..Len(ps) |->
        Entry(ps[i].k, Locale(ps[i].lang, ps[i].label, ps[i].link,
                              IF ps[i].theme = <<>> THEN 0 ELSE AddressOf(ps, i)))]

RECURSIVE ThemesOf(_)
ThemesOf(ps) ==
    IF ps = <<>> THEN <<>> ELSE Head(ps).theme \o ThemesOf(Tail(ps))

\* versionsConfig.versionSwitcher of the default configuration
DefaultSwitcher == <<[text |-> "Switch Version", includeCurrentVersion |-> TRUE]>>

GlobalSidebarItem == SidebarItem("GS", <<"", "ref">>, Undefined, FALSE, FALSE, <<>>)

\* The global themeConfig and versionSwitcher of a configuration.
GlobalConfigs ==
    { [themeConfig |-> ThemeConfig(<<>>, NoSidebar, FALSE), versionSwitcher |-> DefaultSwitcher],
      [themeConfig |-> ThemeConfig(<<NavArray(<<GlobalNavItem("G1")>>)>>,
                                   SidebarObject(<<Entry(<<"", "guide", "">>, ItemList(<<GlobalSidebarItem>>))>>),
                                   TRUE),
       versionSwitcher |-> DefaultSwitcher],
      [themeConfig |-> ThemeConfig(<<NavObject(<<Entry(Root, <<GlobalNavItem("G1")>>),
                                                 Entry(<<"v1">>, <<GlobalNavItem("G2")>>)>>)>>,
                                   SidebarArray(<<GlobalSidebarItem>>), FALSE),
       versionSwitcher |-> <<>>],
      [themeConfig |-> ThemeConfig(<<NavObject(<<Entry(Root, <<GlobalNavItem("G1")>>),
                                                 Entry(<<"v1">>, <<GlobalNavItem("G2")>>)>>)>>,
                                   NoSidebar, FALSE),
       versionSwitcher |-> DefaultSwitcher] }

\* The archive directories, in listing order.
ArchiveListings ==
    {SubSeq(<<<<"v1">>, <<"v2">>, <<"v3">>>>, 1, n) : n \in 0..MaxVersions}

\* The constructor: locales, rewrites of vitepressConfig are {}, localesMap
\* and versionsList are empty.
StateInitial ==
    /\ \E ps \in LocaleProfileLists, g \in GlobalConfigs :
          /\ configuration = [locales |-> LocalesOf(ps), themeConfig |-> g.themeConfig,
                              versionSwitcher |-> g.versionSwitcher]
          /\ heap = ThemesOf(ps)
    /\ archiveFolders \in ArchiveListings
    /\ stateVersionsList = <<>> /\ localesMap = <<>> /\ locales = <<>>
    /\ rewrites = NoRewrites
    /\ ran = <<>> /\ reference = <<>>
    /\ pc = "constructed"
    /\ KeyIdle /\ PopIdle /\ NormIdle /\ RwIdle /\ ObjIdle /\ FsIdle /\ InjIdle

\* The output a host reads: every entry of the locales table with its
\* themeConfig object, and rewrites.
View(table, hp, rw) ==
    [locales  |-> [i \in 1..Len(table) |->
                    [k     |-> table[i].k,
                     lang  |-> table[i].v.lang,
                     label |-> table[i].v.label,
                     link  |-> table[i].v.link,
                     themeConfig |-> IF table[i].v.themeConfig = 0 THEN <<>>
                                     ELSE <<hp[table[i].v.themeConfig]>>]],
     rewrites |-> rw]

\* defineVersionedConfig: the four stages in the order the entry point calls
\* them, applied to the locales table, the heap and rewrites.  Each stage's
\* result is bound before the next stage reads it.
DefineVersionedConfig(st, config, lmap, versions) ==
    CHOOSE done \in
        { [locales  |-> sidebars.locales,
           heap     |-> sidebars.heap,
           rewrites |-> ParseRoutesComponent(lmap, versions)] :
            sidebars \in { ParseSidebars(navs, config, lmap, versions) :
                navs \in { ParseNavs(parsed, config, lmap, versions) :
                    parsed \in { ParseLocale(st, config.locales, lmap, versions) } } } } : TRUE

\* StateModel.init()
StateInit ==
    /\ pc = "constructed"
    /\ LET made == InitializeLocalesMap(configuration.locales, archiveFolders)
           done == DefineVersionedConfig([locales |-> made.locales, heap |-> heap],
                                         configuration, made.localesMap, archiveFolders)
       IN  /\ stateVersionsList' = archiveFolders
           /\ locales' = made.locales
           /\ localesMap' = made.localesMap
           /\ reference' = View(done.locales, done.heap, done.rewrites)
    /\ pc' = "ready"
    /\ UNCHANGED <<configuration, archiveFolders, heap, rewrites, ran>>
    /\ UNCHANGED <<keyVars, popVars, normVars, rwVars, objVars, fsVars, injVars>>

HasRun(stage) == \E i \in 1..Len(ran) : ran[i] = stage

\* parseLocale()
CallParseLocale ==
    /\ pc = "ready"
    /\ ~HasRun("parseLocale")
    /\ LET st == ParseLocale([locales |-> locales, heap |-> heap], configuration.locales,
                             localesMap, stateVersionsList)
       IN  locales' = st.locales /\ heap' = st.heap
    /\ ran' = Append(ran, "parseLocale")
    /\ UNCHANGED <<configuration, archiveFolders, stateVersionsList, localesMap, rewrites,
                   reference, pc>>
    /\ UNCHANGED <<keyVars, popVars, normVars, rwVars, objVars, fsVars, injVars>>

\* parseNavs()
CallParseNavs ==
    /\ pc = "ready"
    /\ ~HasRun("parseNavs")
    /\ LET st == ParseNavs([locales |-> locales, heap |-> heap], configuration,
                           localesMap, stateVersionsList)
       IN  locales' = st.locales /\ heap' = st.heap
    /\ ran' = Append(ran, "parseNavs")
    /\ UNCHANGED <<configuration, archiveFolders, stateVersionsList, localesMap, rewrites,
                   reference, pc>>
    /\ UNCHANGED <<keyVars, popVars, normVars, rwVars, objVars, fsVars, injVars>>

\* parseSidebars()
CallParseSidebars ==
    /\ pc = "ready"
    /\ ~HasRun("parseSidebars")
    /\ LET st == ParseSidebars([locales |-> locales, heap |-> heap], configuration,
                               localesMap, stateVersionsList)
       IN  locales' = st.locales /\ heap' = st.heap
    /\ ran' = Append(ran, "parseSidebars")
    /\ UNCHANGED <<configuration, archiveFolders, stateVersionsList, localesMap, rewrites,
                   reference, pc>>
    /\ UNCHANGED <<keyVars, popVars, normVars, rwVars, objVars, fsVars, injVars>>

\* parseRoutesComponent()
CallParseRoutesComponent ==
    /\ pc = "ready"
    /\ ~HasRun("parseRoutesComponent")
    /\ rewrites' = ParseRoutesComponent(localesMap, stateVersionsList)
    /\ ran' = Append(ran, "parseRoutesComponent")
    /\ UNCHANGED <<configuration, archiveFolders, stateVersionsList, localesMap, locales, heap,
                   reference, pc>>
    /\ UNCHANGED <<keyVars, popVars, normVars, rwVars, objVars, fsVars, injVars>>

Next ==
    \/ StateInit
    \/ CallParseLocale
    \/ CallParseNavs
    \/ CallParseSidebars
    \/ CallParseRoutesComponent

Spec == StateInitial /\ [][Next]_vars

-----------------------------------------------------------------------------
(* Specification of the rewrites: the function and the map that             *)
(* parseRoutesComponent installs, and the default hook, on the locale maps  *)
(* init() produces.                                                         *)

\* localesMap after init() for no locales, for {en}, for {root, 'fr-CA'} and
\* for {en, de} with de linked at '/de/'.
RwLocalesMaps ==
    { <<>>,
      <<Entry(<<"en">>, Root)>>,
      <<Entry(<<"en">>, Root), Entry(<<"fr">>, <<"fr-CA">>)>>,
      <<Entry(<<"en">>, Root), Entry(<<"", "de", "">>, <<"de">>)>> }

\* versionsConfig.sources and versionsConfig.archive
RwDirectories ==
    { [sources |-> <<"src">>,  archive |-> <<"archive">>],
      [sources |-> <<"docs">>, archive |-> <<"archive">>],
      [sources |-> <<"src">>,  archive |-> <<"versions">>] }

\* versionsConfig.hooks.rewritesHook: the default, or a function of the user.
RwHooks == {"rewritesHook", "userHook"}

RwHeads  == {"src", "docs", "archive", "versions"}
RwPieces == {"v1", "en", "fr", "guide", "index.md"}

\* The ids the site generator asks about: a top directory and up to MaxPath
\* further pieces.
RwIds == {<<h>> \o t : h \in RwHeads, t \in SeqsUpTo(RwPieces, MaxPath)}

\* The files of a folder, relative to it.
RwFiles ==
    { <<"index.md">>, <<"en", "index.md">>, <<"fr", "guide", "index.md">>, <<"fr-CA", "index.md">> }

RwFileLists ==
    {fl \in SeqsUpTo(RwFiles, MaxFiles) :
        fl # <<>> /\ \A i, j \in 1..Len(fl) : fl[i] = fl[j] => i = j}

\* state.fileMap: the files of the sources directory under '' and the files
\* of each version under its label.
RwFileMaps(versions) ==
    {<<Entry(Empty, fl)>> \o [n \in 1..Len(versions) |-> Entry(versions[n], vf[n])] :
        fl \in RwFileLists, vf \in [1..Len(versions) -> RwFileLists]}

RwHookSources ==
    { Empty, <<"index.md">>, <<"guide", "index.md">>, <<"..", "index.md">>, <<"guide", "", "index.md">> }

RwInit ==
    /\ \E lmap \in RwLocalesMaps, d \in RwDirectories, h \in RwHooks, vs \in ArchiveListings :
          rwState = [sources |-> d.sources, archive |-> d.archive, localesMap |-> lmap,
                     versionsList |-> vs, hook |-> h]
    /\ rwId = <<>> /\ rwFileMap = <<>> /\ rwMap = <<>>
    /\ rwHookArgs = <<>> /\ rwResult = <<>>
    /\ rwPc = "ready"
    /\ KeyIdle /\ PopIdle /\ NormIdle /\ StateIdle /\ ObjIdle /\ FsIdle /\ InjIdle

\* parseRoutesComponent() in its function form, and a call of the function
\* it installs.
CallRewrites ==
    /\ rwPc = "ready"
    /\ \E id \in RwIds :
          /\ rwId' = id
          /\ rwResult' = Rewrites(ParseRoutesComponent(rwState.localesMap, rwState.versionsList),
                                  rwState.localesMap, rwState.hook, id)
    /\ rwPc' = "function"
    /\ UNCHANGED <<rwState, rwFileMap, rwMap, rwHookArgs>>
    /\ UNCHANGED <<keyVars, popVars, normVars, stateVars, objVars, fsVars, injVars>>

\* parseRoutesComponent() in its map-based form, on the files found.
CallParseRoutesComponentMap ==
    /\ rwPc = "ready"
    /\ \E fm \in RwFileMaps(rwState.versionsList) :
          /\ rwFileMap' = fm
          /\ rwMap' = ParseRoutesComponentMap(fm, rwState.sources, rwState.archive,
                                              rwState.localesMap, rwState.hook)
    /\ rwPc' = "map"
    /\ UNCHANGED <<rwState, rwId, rwHookArgs, rwResult>>
    /\ UNCHANGED <<keyVars, popVars, normVars, stateVars, objVars, fsVars, injVars>>

\* rewritesHook(source, version, locale)
CallRewritesHook ==
    /\ rwPc = "ready"
    /\ \E source \in RwHookSources, version \in {Empty, <<"v1">>}, locale \in {Empty, <<"en">>} :
          /\ rwHookArgs' = [source |-> source, version |-> version, locale |-> locale]
          /\ rwResult' = RewritesHook(source, version, locale)
    /\ rwPc' = "hook"
    /\ UNCHANGED <<rwState, rwId, rwFileMap, rwMap>>
    /\ UNCHANGED <<keyVars, popVars, normVars, stateVars, objVars, fsVars, injVars>>

RwNext ==
    \/ CallRewrites
    \/ CallParseRoutesComponentMap
    \/ CallRewritesHook

SpecRewrite == RwInit /\ [][RwNext]_vars

-----------------------------------------------------------------------------
(* Specification of the object utilities: deepMerge and assignMissingDeep   *)
(* on every pair of objects nested at most MaxDepth deep.                   *)

\* The values that are not plain objects.
ObjLeaves ==
    { JsScalar("null"), JsScalar("false"), JsScalar("0"), JsScalar("1"),
      JsArray(<<JsScalar("1")>>) }

\* The objects nested at most d deep: a key a holding a leaf or an object,
\* and a key b holding a scalar; each may be absent.
RECURSIVE ObjObjects(_)
ObjObjects(d) ==
    IF d = 0 THEN {}
    ELSE { JsObject(a \o b) :
             a \in {<<>>} \cup {<<Entry("a", v)>> : v \in ObjLeaves \cup ObjObjects(d - 1)},
             b \in {<<>>} \cup {<<Entry("b", v)>> : v \in {JsScalar("1"), JsScalar("null")}} }

ObjInit ==
    /\ objTarget \in ObjObjects(MaxDepth)
    /\ objSource \in ObjObjects(MaxDepth)
    /\ objBefore = objTarget
    /\ objResult = <<>>
    /\ objPc = "ready"
    /\ KeyIdle /\ PopIdle /\ NormIdle /\ StateIdle /\ RwIdle /\ FsIdle /\ InjIdle

\* deepMerge(obj1, obj2)
CallDeepMerge ==
    /\ objPc = "ready"
    /\ objResult' = DeepMerge(objTarget, objSource)
    /\ objPc' = "merged"
    /\ UNCHANGED <<objTarget, objSource, objBefore>>
    /\ UNCHANGED <<keyVars, popVars, normVars, stateVars, rwVars, fsVars, injVars>>

\* assignMissingDeep(target, source): fills target in place and returns it.
CallAssignMissingDeep ==
    /\ objPc = "ready"
    /\ objTarget' = AssignMissingDeep(objTarget, objSource)
    /\ objResult' = objTarget'
    /\ objPc' = "filled"
    /\ UNCHANGED <<objSource, objBefore>>
    /\ UNCHANGED <<keyVars, popVars, normVars, stateVars, rwVars, fsVars, injVars>>

ObjNext ==
    \/ CallDeepMerge
    \/ CallAssignMissingDeep

SpecObject == ObjInit /\ [][ObjNext]_vars

-----------------------------------------------------------------------------
(* Specification of construction: new StateModel(configuration) on every    *)
(* filesystem made of the directories below, once or again on the           *)
(* filesystem the first construction left.                                  *)

\* process.cwd()
Cwd == <<"", "project">>

\* join(process.cwd(), process.argv[3] ?? '', configuration.srcDir ?? '')
RootPath(config) ==
    PosixJoin(<<Cwd, Empty, IF Has(config, "srcDir") THEN Get(config, "srcDir") ELSE Empty>>)

\* the placeholder file of an archive directory
GitKeep == <<".gitkeep">>

\* existsSync(path)
ExistsSync(fs, path) == path \in fs

\* makeArchiveDirectory(path): the filesystem after it and the writes it made.
MakeArchiveDirectory(fs, path) ==
    IF path = Empty THEN [disk |-> fs, writes |-> <<>>]
    ELSE IF ~ExistsSync(fs, path)
    THEN [disk   |-> fs \cup {path, PosixJoin(<<path, GitKeep>>)},
          writes |-> <<[op |-> "mkdirSync", path |-> path],
                       [op |-> "writeFileSync", path |-> PosixJoin(<<path, GitKeep>>)]>>]
    ELSE [disk |-> fs, writes |-> <<>>]

ExcludedKeys == {"locales", "rewrites", "themeConfig", "versionsConfig"}

\* createVitepressConfig(): the configuration without the versioning keys.
RECURSIVE CreateVitepressConfig(_, _, _)
CreateVitepressConfig(result, config, i) ==
    IF i > Len(config) THEN result
    ELSE LET key == config[i].k
         IN  IF key \notin ExcludedKeys
             THEN CreateVitepressConfig(Put(result, key, config[i].v), config, i + 1)
             ELSE IF key = "themeConfig"
             THEN CreateVitepressConfig(
                      Put(result, key,
                          SelectSeq(config[i].v, LAMBDA e : e.k # "nav" /\ e.k # "sidebar")),
                      config, i + 1)
             ELSE IF key # "versionsConfig"
             THEN CreateVitepressConfig(Put(result, key, <<>>), config, i + 1)
             ELSE CreateVitepressConfig(result, config, i + 1)

\* A constructor that prepares the archive directory before it validates
\* the sources directory.
ConstructorArchiveFirst(fs, config) ==
    LET versionsConfig == Get(config, "versionsConfig")
        sourcesPath == PosixJoin(<<RootPath(config), versionsConfig.sources>>)
        archivePath == PosixJoin(<<RootPath(config), versionsConfig.archive>>)
        made        == MakeArchiveDirectory(fs, archivePath)
    IN  IF ~ExistsSync(made.disk, sourcesPath)
        THEN [threw |-> TRUE, disk |-> made.disk, writes |-> made.writes, instance |-> <<>>]
        ELSE [threw |-> FALSE, disk |-> made.disk, writes |-> made.writes,
              instance |-> <<[sourcesPath |-> sourcesPath, archivePath |-> archivePath,
                              vitepressConfig |-> CreateVitepressConfig(<<>>, config, 1)]>>]

\* new StateModel(configuration): whether it threw, the filesystem after it,
\* the writes it made and the instance.
Constructor(fs, config) ==
    LET versionsConfig == Get(config, "versionsConfig")
        sourcesPath == PosixJoin(<<RootPath(config), versionsConfig.sources>>)
        archivePath == PosixJoin(<<RootPath(config), versionsConfig.archive>>)
    IN  IF ~ExistsSync(fs, sourcesPath)
        THEN [threw |-> TRUE, disk |-> fs, writes |-> <<>>, instance |-> <<>>]
        ELSE LET made == MakeArchiveDirectory(fs, archivePath)
             IN  [threw |-> FALSE, disk |-> made.disk, writes |-> made.writes,
                  instance |-> <<[sourcesPath |-> sourcesPath, archivePath |-> archivePath,
                                  vitepressConfig |-> CreateVitepressConfig(<<>>, config, 1)]>>]

DirectoryNames == {<<"src">>, <<"docs">>, <<"archive">>, <<"versions">>}

CtorThemeConfigs ==
    {<<>>, <<Entry("logo", "logo.svg")>>,
     <<Entry("nav", "nav"), Entry("logo", "logo.svg"), Entry("sidebar", "sidebar")>>}

CtorConfigurations ==
    {<<Entry("title", "Docs")>> \o dir \o theme \o
     <<Entry("locales", "locales"),
       Entry("versionsConfig", [sources |-> sources, archive |-> archive])>> :
        dir     \in {<<>>, <<Entry("srcDir", <<"docs">>)>>},
        theme   \in {<<>>} \cup {<<Entry("themeConfig", t)>> : t \in CtorThemeConfigs},
        sources \in {<<"src">>, <<"docs">>},
        archive \in {<<"archive">>, <<"versions">>}}

\* The filesystems: any of the directories under the root, an archive
\* directory with or without its placeholder file.
CtorDisks(config) ==
    {{PosixJoin(<<RootPath(config), n>>) : n \in names} : names \in SUBSET DirectoryNames}

CtorInit ==
    /\ ctorConfiguration \in CtorConfigurations
    /\ disk \in CtorDisks(ctorConfiguration)
    /\ diskBefore = disk
    /\ diskWrites = <<>>
    /\ ctorInstance = <<>>
    /\ ctorPc = "new"
    /\ KeyIdle /\ PopIdle /\ NormIdle /\ StateIdle /\ RwIdle /\ ObjIdle /\ InjIdle

\* new StateModel(configuration)
CallConstructor ==
    /\ ctorPc \in {"new", "constructed"}
    /\ LET r == Constructor(disk, ctorConfiguration)
       IN  /\ disk' = r.disk
           /\ diskBefore' = disk
           /\ diskWrites' = r.writes
           /\ ctorInstance' = r.instance
           /\ ctorPc' = IF r.threw THEN "threw" ELSE "constructed"
    /\ UNCHANGED ctorConfiguration
    /\ UNCHANGED <<keyVars, popVars, normVars, stateVars, rwVars, objVars, injVars>>

CtorNext == CallConstructor

SpecConstruct == CtorInit /\ [][CtorNext]_vars

-----------------------------------------------------------------------------
(* Specification of the injection registry: calls of inject and             *)
(* forceInject, in any order, on decorated and undecorated classes, whose   *)
(* constructors may throw.                                                   *)

MaxCalls == 3

\* The options @Injectable stores for a class.
Metadata(scope, factory, providers) ==
    [scope |-> scope, factory |-> factory, providers |-> providers]

\* What a call gives back: the registry and the objects after it, the
\* value returned (0 when the call threw) and the calls made, in the order
\* they returned.
Injected(held, objects, result, events) ==
    [singletons |-> held, objects |-> objects, result |-> result, events |-> events]

InjectEvent(token, result, created) ==
    [op |-> "inject", token |-> token, result |-> result, created |-> created]

\* inject(token, ...args) with providersIntoArgs(metadata.providers, args):
\* nArgs is the number of arguments passed, throwing the classes whose
\* constructor or factory throws during this call.  metadata.factory, when
\* given, builds the instance in place of the constructor: a new object
\* either way.
RECURSIVE Inject(_, _, _, _, _, _)
Inject(registered, held, objects, token, nArgs, throwing) ==
    IF Has(held, token)
    THEN Injected(held, objects, Get(held, token), <<InjectEvent(token, Get(held, token), FALSE)>>)
    ELSE IF ~Has(registered, token)
    THEN Injected(held, objects, 0, <<InjectEvent(token, 0, FALSE)>>)
    ELSE LET metadata  == Get(registered, token)
             providers == SubSeq(metadata.providers, nArgs + 1, Len(metadata.providers))
             \* the providers resolved one after the other, until one throws
             Resolve[i \in 0..Len(providers)] ==
                 IF i = 0 THEN Injected(held, objects, 1, <<>>)
                 ELSE LET before == Resolve[i - 1]
                      IN  IF before.result = 0 THEN before
                          ELSE LET r == Inject(registered, before.singletons, before.objects,
                                               providers[i], 0, throwing)
                               IN  Injected(r.singletons, r.objects, r.result,
                                            before.events \o r.events)
             resolved  == Resolve[Len(providers)]
         IN  IF resolved.result = 0 \/ token \in throwing
             THEN Injected(resolved.singletons, resolved.objects, 0,
                           Append(resolved.events, InjectEvent(token, 0, FALSE)))
             ELSE LET instance == Len(resolved.objects) + 1
                      made     == Append(resolved.objects, token)
                  IN  Injected(IF metadata.scope = "singleton"
                                 THEN Put(resolved.singletons, token, instance)
                                 ELSE resolved.singletons,
                               made, instance,
                               Append(resolved.events, InjectEvent(token, instance, TRUE)))

\* SINGLETONS.delete(token)
Delete(held, token) == SelectSeq(held, LAMBDA e : e.k # token)

\* The call as forceInject reports it.
Forced(r) ==
    Injected(r.singletons, r.objects, r.result,
             [r.events EXCEPT ![Len(r.events)].op = "forceInject"])

\* A forceInject that keeps the instance the registry holds.
ForceInjectKeeping(registered, held, objects, token, nArgs, throwing) ==
    Forced(Inject(registered, held, objects, token, nArgs, throwing))

\* forceInject(token, ...args)
ForceInject(registered, held, objects, token, nArgs, throwing) ==
    Forced(Inject(registered, IF Has(held, token) THEN Delete(held, token) ELSE held,
                  objects, token, nArgs, throwing))

InjTokens == {"StateModel", "Service", "Undecorated"}

\* The classes decorated when the modules are loaded: StateModel is a
\* singleton; Service takes a StateModel as its first constructor argument.
InjRegistrations ==
    {<<Entry("StateModel", Metadata("singleton", factory, <<>>)),
       Entry("Service", Metadata(scope, FALSE, <<"StateModel">>))>> :
        factory \in BOOLEAN, scope \in {"singleton", "transient", "undefined"}}

InjInit ==
    /\ injectables \in InjRegistrations
    /\ singletons = <<>>
    /\ injObjects = <<>>
    /\ injLog = <<>>
    /\ injPc = "ready"
    /\ KeyIdle /\ PopIdle /\ NormIdle /\ StateIdle /\ RwIdle /\ ObjIdle /\ FsIdle

InjCalls == Cardinality({i \in 1..Len(injLog) : injLog[i].top})

Top(events) ==
    [i \in 1..Len(events) |->
        [op |-> events[i].op, token |-> events[i].token, result |-> events[i].result,
         created |-> events[i].created, top |-> i = Len(events)]]

\* inject(token, ...args)
CallInject ==
    /\ injPc = "ready"
    /\ InjCalls < MaxCalls
    /\ \E token \in InjTokens, nArgs \in 0..1, throwing \in SUBSET {"StateModel", "Service"} :
           LET r == Inject(injectables, singletons, injObjects, token, nArgs, throwing)
           IN  /\ singletons' = r.singletons
               /\ injObjects' = r.objects
               /\ injLog' = injLog \o Top(r.events)
    /\ UNCHANGED <<injectables, injPc>>
    /\ UNCHANGED <<keyVars, popVars, normVars, stateVars, rwVars, objVars, fsVars>>

\* forceInject(token, ...args)
CallForceInject ==
    /\ injPc = "ready"
    /\ InjCalls < MaxCalls
    /\ \E token \in InjTokens, nArgs \in 0..1, throwing \in SUBSET {"StateModel", "Service"} :
           LET r == ForceInject(injectables, singletons, injObjects, token, nArgs, throwing)
           IN  /\ singletons' = r.singletons
               /\ injObjects' = r.objects
               /\ injLog' = injLog \o Top(r.events)
    /\ UNCHANGED <<injectables, injPc>>
    /\ UNCHANGED <<keyVars, popVars, normVars, stateVars, rwVars, objVars, fsVars>>

InjNext ==
    \/ CallInject
    \/ CallForceInject

SpecInject == InjInit /\ [][InjNext]_vars

-----------------------------------------------------------------------------
(* Claims about the path-key parser *)

KeyDone == keyPc = "done"

FirstIsVersion == keyInput # <<>> /\ Includes(keyVersions, keyInput[1])
FirstIsLocale  == keyInput # <<>> /\ Includes(keyLocales, keyInput[1])

\* C3: extractLocale is version-first.  A first segment that is a known version
\* is consumed alone as the version and lang stays '', also when that token or
\* the next one is a known locale; otherwise a leading known locale is consumed
\* as lang and then a known version after it as version; when neither matches
\* both outputs are '' and the array is left as it was.
C3_VersionFirst ==
    KeyDone =>
        IF FirstIsVersion
        THEN /\ keyResult = [lang |-> Empty, version |-> <<keyInput[1]>>]
             /\ segments = Tail(keyInput)
        ELSE IF FirstIsLocale
        THEN /\ keyResult.lang = <<keyInput[1]>>
             /\ IF Len(keyInput) >= 2 /\ Includes(keyVersions, keyInput[2])
                THEN keyResult.version = <<keyInput[2]>> /\ segments = SubSeq(keyInput, 3, Len(keyInput))
                ELSE keyResult.version = Empty /\ segments = Tail(keyInput)
        ELSE /\ keyResult = [lang |-> Empty, version |-> Empty]
             /\ segments = keyInput

\* C3 witness: a parsed array whose first segment is both a known version and a
\* known locale, consumed as the version.
C3_Witness ==
    /\ KeyDone /\ FirstIsVersion /\ FirstIsLocale
    /\ keyResult.lang = Empty /\ keyResult.version = <<keyInput[1]>>
    /\ Len(segments) = Len(keyInput) - 1

IsRoundTripInput ==
    /\ Len(keyInput) = 4
    /\ Includes(keyLocales, keyInput[1])
    /\ Includes(keyVersions, keyInput[2])

RoundTrips ==
    /\ keyResult = [lang |-> <<keyInput[1]>>, version |-> <<keyInput[2]>>]
    /\ segments = SubSeq(keyInput, 3, 4)

\* C4 as stated: for every [locale, version, subpath1, subpath2] with the locale
\* and the version drawn from the known lists, parsing returns exactly
\* {locale, version} and leaves [subpath1, subpath2].
C4_RoundTripAsStated == (KeyDone /\ IsRoundTripInput) => RoundTrips

\* C4 amended: the round trip holds for every such array whose locale is not
\* also a known version label.
C4_RoundTrip ==
    (KeyDone /\ IsRoundTripInput /\ ~Includes(keyVersions, keyInput[1])) => RoundTrips

\* C4 witness: a locale/version/subpath1/subpath2 array parsed back to its parts.
C4_Witness ==
    /\ KeyDone /\ IsRoundTripInput /\ ~Includes(keyVersions, keyInput[1])
    /\ keyResult.lang = <<keyInput[1]>> /\ keyResult.version = <<keyInput[2]>>
    /\ Len(segments) = 2

-----------------------------------------------------------------------------
(* Claims about propagation *)

PopDone  == popPc \in {"navDone", "sidebarDone"}
PopInput == IF popPc = "navDone" THEN navItems ELSE sidebarItems

BaseOf(item) == IF "base" \in DOMAIN item THEN item.base ELSE Undefined

\* The link and base of an item and of all its descendants.
RECURSIVE LinkTree(_)
LinkTree(item) ==
    [link |-> item.link, base |-> BaseOf(item),
     items |-> [i \in 1..Len(item.items) |-> LinkTree(item.items[i])]]

\* Every subtree of input rooted at a skipVersioning item has the same links and
\* bases in output.
RECURSIVE SkipPreserved(_, _)
SkipPreserved(input, output) ==
    IF input.skipVersioning
    THEN LinkTree(output) = LinkTree(input)
    ELSE /\ Len(output.items) = Len(input.items)
         /\ \A i \in 1..Len(input.items) : SkipPreserved(input.items[i], output.items[i])

\* C5: skipVersioning invariant.  For every subtree rooted at an item with
\* skipVersioning: true, populateNav and populateSidebar leave the link and the
\* base of that item and of every descendant unchanged, for every version
\* argument, '' and 'root' included.
C5_SkipVersioning ==
    PopDone =>
        /\ Len(popResult) = Len(PopInput)
        /\ \A i \in 1..Len(PopInput) : SkipPreserved(PopInput[i], popResult[i])

\* C5 witness: populateNav with version 'v1' returned a skipVersioning group
\* that holds an unmarked link, untouched.
C5_Witness ==
    /\ popPc = "navDone" /\ popVersion = <<"v1">>
    /\ \E i \in 1..Len(navItems) :
          /\ navItems[i].skipVersioning /\ navItems[i].hasItems
          /\ \E j \in 1..Len(navItems[i].items) :
                /\ ~navItems[i].items[j].skipVersioning
                /\ navItems[i].items[j].link = Guide
                /\ popResult[i].items[j].link = Guide

\* Every external link of input, at any depth, is the same in output.
RECURSIVE ExternalKept(_, _)
ExternalKept(input, output) ==
    /\ IsExternalLink(input.link) => output.link = input.link
    /\ Len(output.items) = Len(input.items)
    /\ \A i \in 1..Len(input.items) : ExternalKept(input.items[i], output.items[i])

\* C6 as stated: populateNav returns every link item whose target is an absolute
\* URL with its link unchanged, at any depth, with or without skipVersioning.
C6_ExternalNeverPrefixed ==
    popPc = "navDone" =>
        \A i \in 1..Len(navItems) : ExternalKept(navItems[i], popResult[i])

\* The external links of input under skipVersioning (skipped: an ancestor has
\* it) are the same in output; an external link-only item that the traversal
\* reaches without skipVersioning is prefixed like any other link (blocked: the
\* item lies in a top-level component item, which is not traversed).
RECURSIVE ExternalBySkip(_, _, _, _, _)
ExternalBySkip(input, output, skipped, blocked, v) ==
    LET sk == skipped \/ input.skipVersioning IN
    /\ (IsExternalLink(input.link) /\ sk) => output.link = input.link
    /\ (IsExternalLink(input.link) /\ ~sk /\ ~blocked /\ ~input.hasItems)
            => output.link = PosixJoin(<<Slash, v, input.link>>)
    /\ Len(output.items) = Len(input.items)
    /\ \A i \in 1..Len(input.items) :
            ExternalBySkip(input.items[i], output.items[i], sk, blocked, v)

\* C6 amended: an external link is left unchanged by populateNav when the item
\* or one of its ancestors has skipVersioning; without it, an external link is
\* prefixed with the version like any other link.
C6_ExternalOnlyWhenSkipped ==
    popPc = "navDone" =>
        \A i \in 1..Len(navItems) :
            ExternalBySkip(navItems[i], popResult[i], FALSE,
                           navItems[i].component # Undefined,
                           IF popVersion = Root THEN Empty ELSE popVersion)

\* C6 witness: populateNav with version 'v1' returned an external link marked
\* skipVersioning inside an unmarked group, unchanged.
C6_Witness ==
    /\ popPc = "navDone" /\ popVersion = <<"v1">>
    /\ \E i \in 1..Len(navItems) :
          /\ navItems[i].hasItems /\ ~navItems[i].skipVersioning
          /\ \E j \in 1..Len(navItems[i].items) :
                /\ navItems[i].items[j].skipVersioning
                /\ navItems[i].items[j].link = External
                /\ popResult[i].items[j].link = External

-----------------------------------------------------------------------------
(* Claims about normalization *)

\* The keys normalizeNav writes for its nav argument: for each, the key of the
\* nav (of the results, for an array), the items configured and the index.
NavProduced ==
    IF normNav.isArray
    THEN LET index == IF normPrefix # Empty THEN normPrefix ELSE Root
         IN  {[key |-> index, items |-> normNav.items, index |-> index]}
    ELSE {[key   |-> normNav.entries[i].k,
           items |-> normNav.entries[i].v,
           index |-> IF normNav.entries[i].k = Root
                     THEN (IF normPrefix = Empty THEN Root ELSE normPrefix)
                     ELSE PosixJoin(<<normPrefix, normNav.entries[i].k>>)] :
            i \in 1..Len(normNav.entries)}

\* The global items for a key: those of the same key, or the global root items.
GlobalFor(key) ==
    IF Has(normRoot, key) THEN Get(normRoot, key)
    ELSE IF Has(normRoot, Root) THEN Get(normRoot, Root)
    ELSE <<>>

StoredBefore(index) == IF Has(normBefore, index) THEN Get(normBefore, index) ELSE <<>>

\* C8 as stated: for every key produced by normalizing a locale's nav against
\* the global nav, the resulting list is the locale's items in their order
\* followed by the global items for the key (the global root items when there
\* are none for the key).
C8_SuffixFallbackAsStated ==
    normPc = "navDone" =>
        \A p \in NavProduced :
            /\ Has(normResults, p.index)
            /\ Get(normResults, p.index) = p.items \o GlobalFor(p.key)

\* C8 amended: a call appends to the list stored under the key the locale's
\* items in their order followed by the global items for the key (the global
\* root items when there are none for the key); what the list held before the
\* call stays in front.
C8_SuffixFallback ==
    normPc = "navDone" =>
        \A p \in NavProduced :
            /\ Has(normResults, p.index)
            /\ Get(normResults, p.index) = StoredBefore(p.index) \o p.items \o GlobalFor(p.key)

\* C8 witness: a locale's two items stored under its prefix, followed by the
\* two global root items.
C8_Witness ==
    /\ normPc = "navDone" /\ normPrefix = <<"fr">> /\ normNav.isArray /\ Len(normNav.items) = 2
    /\ Has(normRoot, Root) /\ Len(Get(normRoot, Root)) = 2 /\ ~Has(normRoot, <<"fr">>)
    /\ ~Has(normBefore, <<"fr">>)
    /\ Get(normResults, <<"fr">>) = normNav.items \o Get(normRoot, Root)

\* The items stored anywhere in a results object of normalizeSidebar.
StoredSidebarItems(results) ==
    UNION {UNION {{b[j].v[n] : n \in 1..Len(b[j].v)} : j \in 1..Len(b)} :
            b \in {results[i].v : i \in 1..Len(results)}}

\* The locale the key of a sidebar entry parses to ('' when none).
EntryLocale(entry) ==
    ExtractLocale(FilterBoolean(Split(entry.k)), normLocales, normVersions).lang

\* C9: no cross-locale leakage.  When normalizeSidebar processes a path-keyed
\* sidebar for the locale prefix P, an entry whose key parses to a locale other
\* than P is skipped: none of its items is stored in any bucket of the results.
C9_NoCrossLocaleLeak ==
    (normPc = "sidebarDone" /\ normSidebar.defined /\ ~normSidebar.isArray) =>
        \A i \in 1..Len(normSidebar.entries) :
            LET e == normSidebar.entries[i] IN
            (EntryLocale(e) # Empty /\ EntryLocale(e) # normPrefix) =>
                \A n \in 1..Len(e.v.items) : e.v.items[n] \notin StoredSidebarItems(normResults)

-----------------------------------------------------------------------------
(* Claims about the pipeline *)

AllRun == pc = "ready" /\ Len(ran) = 4

Position(stage) == CHOOSE i \in 1..Len(ran) : ran[i] = stage

Before(a, b) == HasRun(a) /\ HasRun(b) /\ Position(a) < Position(b)

Output == View(locales, heap, rewrites)

UserLocales == configuration.locales

\* The user's locale that becomes the root: 'root', or the first key.
RootLocaleKey == IF Has(UserLocales, Root) THEN Root ELSE UserLocales[1].k

KeysMappedTo(index) == {i \in 1..Len(localesMap) : localesMap[i].v = index}

\* C2: for every non-empty user locales configuration, after init() exactly
\* one key of localesMap maps to the index 'root', and every other user locale
\* has its own key in localesMap, mapped to its own index.
C2_ExactlyOneRootKey ==
    (pc = "ready" /\ Len(UserLocales) > 0) =>
        /\ Cardinality(KeysMappedTo(Root)) = 1
        /\ \A i \in 1..Len(UserLocales) :
              UserLocales[i].k # RootLocaleKey =>
                  Cardinality(KeysMappedTo(UserLocales[i].k)) = 1

\* The texts of the top-level items of a nav.
Texts(items) == [n \in 1..Len(items) |-> items[n].text]

\* C7: navigation inheritance is global -> locale -> version.  When parseNavs
\* runs (after parseLocale), for every non-root locale L that configures its
\* own nav and every version v with no nav configured at the key L/v, the nav
\* written to the entry L/v has the items of L's normalized nav (L's items
\* followed by the global fallback), not those of the root locale's nav.
C7_LocaleNavInherited ==
    [][(pc = "ready" /\ HasRun("parseLocale") /\ ran' = Append(ran, "parseNavs")) =>
        LET navs == NormalizeNavs(configuration, heap, localesMap, stateVersionsList) IN
        \A i \in 1..Len(UserLocales), n \in 1..Len(stateVersionsList) :
            LET L   == UserLocales[i].k
                key == PosixJoin(<<L, stateVersionsList[n]>>)
            IN  (/\ L # RootLocaleKey
                 /\ UserLocales[i].v.themeConfig # 0
                 /\ heap[UserLocales[i].v.themeConfig].nav # <<>>
                 /\ ~Has(navs, key))
                => /\ Has(navs, L)
                   /\ Has(locales', key)
                   /\ Texts(NavOf(heap', Get(locales', key)).items) = Texts(Get(navs, L))
      ]_vars

\* C10: locale source records are resolved consistently in both configuration
\* styles.  After init() and parseLocale(), for every user locale key K with
\* its own lang and label, the entry at K's index ('root' for the root locale,
\* K otherwise) carries exactly K's lang and label.
C10_SourceRecordResolved ==
    (pc = "ready" /\ HasRun("parseLocale")) =>
        \A i \in 1..Len(UserLocales) :
            LET K      == UserLocales[i].k
                record == UserLocales[i].v
                index  == IF K = RootLocaleKey THEN Root ELSE K
            IN  (record.lang # Undefined /\ record.label # Undefined) =>
                    /\ Has(locales, index)
                    /\ Get(locales, index).lang = record.lang
                    /\ Get(locales, index).label = record.label

KeySet(obj) == {obj[i].k : i \in 1..Len(obj)}

NonRootLocales == {i \in 1..Len(UserLocales) : UserLocales[i].k # RootLocaleKey}

\* C11: the output locales table has exactly one entry per (locale,
\* version-or-root) pair.  After init() and parseLocale() its keys are 'root',
\* each version label, each non-root locale index and one composite key per
\* (non-root locale, version); they are the keys init() created as
\* placeholders, and no entry is left empty.
C11_OneEntryPerPair ==
    (pc = "ready" /\ ran = <<"parseLocale">>) =>
        LET placeholders == InitializeLocalesMap(UserLocales, stateVersionsList).locales
            versions     == {stateVersionsList[n] : n \in 1..Len(stateVersionsList)}
            indexes      == {UserLocales[i].k : i \in NonRootLocales}
        IN  /\ KeySet(locales) = KeySet(placeholders)
            /\ ({Root} \cup versions \cup indexes) \subseteq KeySet(locales)
            /\ Len(locales) = 1 + Cardinality(versions) + Cardinality(indexes)
                                + Cardinality(indexes) * Cardinality(versions)
            /\ \A i \in 1..Len(locales) : locales[i].v # EmptyLocale

\* The leading subtag of a language tag: what precedes its first '-' or '_'.
LeadingSubtag(tag) ==
    LET cs == Chars(tag)
        n  == CHOOSE m \in 0..Len(cs) :
                /\ \A j \in 1..m : ~IsSeparator(cs[j])
                /\ m < Len(cs) => IsSeparator(cs[m + 1])
    IN  AtomOf(SubSeq(cs, 1, n))

\* The index of a user locale in the output table.
TableIndexOf(K) == IF K = RootLocaleKey THEN Root ELSE K

\* C12: after parseLocale, for every locale with a language tag, the link of
\* its base entry is '/' when its index is 'root' and otherwise '/' + s + '/',
\* s being the leading subtag of the tag.
C12_BaseEntryLink ==
    (pc = "ready" /\ HasRun("parseLocale")) =>
        \A i \in 1..Len(UserLocales) :
            LET record == UserLocales[i].v
                index  == TableIndexOf(UserLocales[i].k)
            IN  Len(record.lang) = 1 =>
                    /\ Has(locales, index)
                    /\ Get(locales, index).link =
                          IF index = Root THEN <<"", "">>
                          ELSE <<"", LeadingSubtag(record.lang[1]), "">>

LastRan(stage) == ran # <<>> /\ ran[Len(ran)] = stage

\* The themeConfig object of an entry, <<>> when it has none.
ThemeOf(locale) == IF locale.themeConfig = 0 THEN <<>> ELSE <<heap[locale.themeConfig]>>

\* The key at which parseLocale writes the entry of a localesMap entry for a
\* version.
VersionedKey(m, n) ==
    IF localesMap[m].v = Root THEN stateVersionsList[n]
    ELSE PosixJoin(<<localesMap[m].k, stateVersionsList[n]>>)

WrittenKeys ==
    {localesMap[m].v : m \in 1..Len(localesMap)}
        \cup {VersionedKey(m, n) : m \in 1..Len(localesMap), n \in 1..Len(stateVersionsList)}

\* C14: when parseLocale returns, no entry it wrote (base or versioned)
\* carries a nav or a sidebar, the entry of every user locale with a
\* themeConfig has a themeConfig with the locale's other fields, and the
\* user's themeConfig objects are as they were, nav and sidebar included.
C14_SanitizedAndPreserved ==
    [][(pc = "ready" /\ ran' = Append(ran, "parseLocale")) =>
        /\ \A i \in 1..Len(locales') :
              (locales'[i].k \in WrittenKeys /\ locales'[i].v.themeConfig # 0) =>
                  /\ heap'[locales'[i].v.themeConfig].nav = <<>>
                  /\ ~heap'[locales'[i].v.themeConfig].sidebar.defined
        /\ \A i \in 1..Len(UserLocales) :
              LET address == UserLocales[i].v.themeConfig
                  index   == TableIndexOf(UserLocales[i].k)
              IN  address # 0 =>
                      /\ heap'[address] = heap[address]
                      /\ Has(locales', index)
                      /\ Get(locales', index).themeConfig # 0
                      /\ heap'[Get(locales', index).themeConfig].other = heap[address].other
      ]_vars

-----------------------------------------------------------------------------
(* Claims about the rewrites *)

\* '' when the locale key maps to the index 'root', the key otherwise.
ResolvedLocale(m) ==
    IF rwState.localesMap[m].v = Root THEN Empty ELSE rwState.localesMap[m].k

\* C15: for every archive-tree path '<archive>/<v>/<l>/<rest>' with v a known
\* version label and l a known locale key, the rewrite function returns
\* hook(rest, v, l'), l' being '' when l maps to 'root' and l otherwise.
C15_ArchivePath ==
    rwPc = "function" =>
        \A n \in 1..Len(rwState.versionsList), m \in 1..Len(rwState.localesMap) :
            LET v      == rwState.versionsList[n]
                l      == rwState.localesMap[m].k
                prefix == rwState.archive \o v \o l
            IN  (IsPrefixSeq(prefix, rwId) /\ Len(rwId) > Len(prefix)) =>
                    rwResult = CallHook(rwState.hook, SubSeq(rwId, Len(prefix) + 1, Len(rwId)),
                                        v, ResolvedLocale(m))

\* The locale keys that lead a path and are followed by more of it.
LeadingKeys(path) ==
    {m \in 1..Len(rwState.localesMap) :
        /\ IsPrefixSeq(rwState.localesMap[m].k, path)
        /\ Len(path) > Len(rwState.localesMap[m].k)}

\* C16: for every source-tree path '<sources>/<path>', <sources> being the
\* configured source directory, the rewrite function returns
\* hook(remainingPath, '', resolvedLocale): the path after its leading locale
\* key, with '' for the root locale's key, or the whole path with '' when no
\* locale key leads it.
C16_SourcePath ==
    (rwPc = "function" /\ IsPrefixSeq(rwState.sources, rwId) /\ Len(rwId) > Len(rwState.sources)) =>
        LET path == SubSeq(rwId, Len(rwState.sources) + 1, Len(rwId))
            keys == LeadingKeys(path)
            m    == CHOOSE k \in keys : \A j \in keys : k =< j
        IN  rwResult =
                IF keys # {}
                THEN CallHook(rwState.hook,
                              SubSeq(path, Len(rwState.localesMap[m].k) + 1, Len(path)),
                              Empty, ResolvedLocale(m))
                ELSE CallHook(rwState.hook, path, Empty, Empty)

\* C17: the map-based and the function-based rewrite builders agree: for
\* every file of the sources directory and of every archived version, the
\* value the map stores for its path is what the function returns for that
\* path, with the same locales, versions and hook.
C17_MapAndFunctionAgree ==
    rwPc = "map" =>
        \A i \in 1..Len(rwMap) :
            rwMap[i].v = Rewrites(ParseRoutesComponent(rwState.localesMap, rwState.versionsList),
                                  rwState.localesMap, rwState.hook, rwMap[i].k)

\* The non-empty values among locale, version and source, in that order,
\* joined by '/'.
JoinedNonEmpty ==
    LET joined == JoinArgs(<<rwHookArgs.locale, rwHookArgs.version, rwHookArgs.source>>)
    IN  IF joined = <<>> THEN Empty ELSE joined

\* C18 as stated: for all inputs, those with empty values included,
\* rewritesHook returns the non-empty values among locale, version and source,
\* in that order, joined by single '/' separators.
C18_HookAsStated == rwPc = "hook" => rwResult = JoinedNonEmpty

\* A normalized relative path, or ''.
IsPlain(s) == s = Empty \/ \A i \in 1..Len(s) : s[i] \notin {"", ".", ".."}

\* C18 amended: when locale, version and source are normalized relative paths
\* or empty, rewritesHook returns the non-empty ones, in that order, joined by
\* '/', and '.' when all three are empty.
C18_HookJoins ==
    (rwPc = "hook" /\ IsPlain(rwHookArgs.locale) /\ IsPlain(rwHookArgs.version)
                   /\ IsPlain(rwHookArgs.source)) =>
        rwResult = IF JoinedNonEmpty = Empty THEN <<".">> ELSE JoinedNonEmpty

\* C18 witness: the hook called with a locale, a version and a nested source.
C18_Witness ==
    /\ rwPc = "hook"
    /\ rwHookArgs = [source |-> <<"guide", "index.md">>, version |-> <<"v1">>, locale |-> <<"en">>]
    /\ rwResult = <<"en", "v1", "guide", "index.md">>

-----------------------------------------------------------------------------
(* Claims about the object utilities *)

\* The override merge as the contract words it: for every key of b the merge
\* of a[k] and b[k] when both are plain objects, b[k] otherwise; the keys only
\* in a keep a's value.
RECURSIVE OverrideMerge(_, _)
OverrideMerge(a, b) ==
    LET Step[i \in 0..Len(b.items)] ==
            IF i = 0 THEN a.items
            ELSE LET key == b.items[i].k
                     bv  == b.items[i].v
                 IN  Put(Step[i - 1], key,
                         IF Has(a.items, key) /\ IsPlainObject(Get(a.items, key)) /\ IsPlainObject(bv)
                         THEN OverrideMerge(Get(a.items, key), bv)
                         ELSE bv)
    IN  JsObject(Step[Len(b.items)])

\* C19: deepMerge(a, b) returns a new object in which every key of b holds
\* the recursive merge of a[k] and b[k] only when both are plain objects and
\* b[k] itself in every other case, an array on either side never being
\* merged; the keys only in a keep a's value.
C19_DeepMergeContract ==
    objPc = "merged" => objResult = OverrideMerge(objTarget, objSource)

\* Every key defined in before is in after, with the same value when it is
\* not a plain object and with every key of its own retained when it is.
RECURSIVE Retains(_, _)
Retains(before, after) ==
    \A i \in 1..Len(before.items) :
        LET key == before.items[i].k
            was == before.items[i].v
        IN  /\ Has(after.items, key)
            /\ IF IsPlainObject(was)
               THEN IsPlainObject(Get(after.items, key)) /\ Retains(was, Get(after.items, key))
               ELSE Get(after.items, key) = was

\* Every key of after that before lacks holds the value of source.
RECURSIVE OnlyFilled(_, _, _)
OnlyFilled(before, source, after) ==
    \A i \in 1..Len(after.items) :
        LET key == after.items[i].k
            now == after.items[i].v
        IN  IF ~Has(before.items, key)
            THEN Has(source.items, key) /\ now = Get(source.items, key)
            ELSE (/\ IsPlainObject(Get(before.items, key)) /\ Has(source.items, key)
                  /\ IsPlainObject(Get(source.items, key)))
                    => OnlyFilled(Get(before.items, key), Get(source.items, key), now)

-----------------------------------------------------------------------------
(* Claims about construction *)

SourcesPathOf == PosixJoin(<<RootPath(ctorConfiguration), Get(ctorConfiguration, "versionsConfig").sources>>)
ArchivePathOf == PosixJoin(<<RootPath(ctorConfiguration), Get(ctorConfiguration, "versionsConfig").archive>>)

Constructed == ctorPc \in {"threw", "constructed"}

\* C21: constructing the StateModel when the source directory does not
\* exist throws before any filesystem write: the filesystem is as it was,
\* no archive directory or placeholder file is written and no instance (and
\* so no output configuration) is made; when the source directory exists
\* and the archive directory does not, construction succeeds and the
\* archive directory and its placeholder file exist afterwards.
C21_ConstructionPrecondition ==
    Constructed =>
        /\ SourcesPathOf \notin diskBefore =>
               /\ ctorPc = "threw"
               /\ disk = diskBefore
               /\ diskWrites = <<>>
               /\ ctorInstance = <<>>
        /\ (SourcesPathOf \in diskBefore /\ ArchivePathOf \notin diskBefore) =>
               /\ ctorPc = "constructed"
               /\ ctorInstance # <<>>
               /\ disk = diskBefore \cup {ArchivePathOf, PosixJoin(<<ArchivePathOf, GitKeep>>)}
               /\ diskWrites[1] = [op |-> "mkdirSync", path |-> ArchivePathOf]
               /\ diskWrites[2].op = "writeFileSync"

\* A construction refused on a filesystem that lacks both directories.
C21_Witness ==
    /\ ctorPc = "threw"
    /\ SourcesPathOf \notin diskBefore
    /\ ArchivePathOf \notin diskBefore
    /\ ArchivePathOf \notin disk

-----------------------------------------------------------------------------
(* Claims about the injection registry *)

IsSingleton(token) ==
    Has(injectables, token) /\ Get(injectables, token).scope = "singleton"

\* The instance made by the latest call, up to the i-th, that constructed token.
LatestCreated(token, i) ==
    LET made == {j \in 1..i : injLog[j].token = token /\ injLog[j].created}
    IN  IF made = {} THEN 0
        ELSE injLog[CHOOSE j \in made : \A k \in made : k =< j].result

\* C22: over any sequence of inject and forceInject calls on a
\* singleton-scoped class the registry holds at most one instance of it,
\* the one made by the latest call that constructed it; every inject that
\* returns gives that instance, and every forceInject that returns gives an
\* instance it constructed itself, distinct from every instance returned
\* before, which later injects then return.
C22_SingletonRegistry ==
    \A token \in InjTokens :
        IsSingleton(token) =>
            /\ Cardinality({i \in 1..Len(singletons) : singletons[i].k = token}) =< 1
            /\ Has(singletons, token) =>
                   Get(singletons, token) = LatestCreated(token, Len(injLog))
            /\ \A i \in 1..Len(injLog) :
                   (injLog[i].token = token /\ injLog[i].result # 0) =>
                       /\ injLog[i].result = LatestCreated(token, i)
                       /\ injObjects[injLog[i].result] = token
                       /\ injLog[i].op = "forceInject" =>
                              /\ injLog[i].created
                              /\ \A j \in 1..(i - 1) : injLog[j].result # injLog[i].result

\* An inject that returns the instance a forceInject made in place of an
\* earlier one.
C22_Witness ==
    \E i, j, k \in 1..Len(injLog) :
        /\ i < j /\ j < k
        /\ injLog[i].token = "StateModel" /\ injLog[i].op = "inject" /\ injLog[i].created
        /\ injLog[j].token = "StateModel" /\ injLog[j].op = "forceInject"
        /\ injLog[j].result # 0 /\ injLog[j].result # injLog[i].result
        /\ injLog[k].token = "StateModel" /\ injLog[k].op = "inject"
        /\ injLog[k].result = injLog[j].result

-----------------------------------------------------------------------------
(* Claims about the stages' effects *)

\* The themeConfig objects of the user configuration.
UserThemes ==
    {UserLocales[i].v.themeConfig : i \in 1..Len(UserLocales)} \ {0}

\* C23: after init(), no stage changes versionsList, localesMap or the user
\* configuration, the themeConfig objects of its locales included; a stage
\* writes only the locales table, the objects it holds and rewrites.
C23_StagesFrame ==
    [][pc = "ready" =>
          /\ stateVersionsList' = stateVersionsList
          /\ localesMap' = localesMap
          /\ archiveFolders' = archiveFolders
          /\ configuration' = configuration
          /\ \A a \in UserThemes : heap'[a] = heap[a]]_vars

\* The objects that exist when populateNav is called.
InputObjects == 1..Len(navHeapBefore)

\* An output item whose link or props differ from the input item's is not
\* one of the input objects, down the children of the items rebuilt.
RECURSIVE FreshWhereChanged(_, _)
FreshWhereChanged(in, out) ==
    LET a == navHeapBefore[in]
        b == navHeap[out]
    IN  /\ (a.link # b.link \/ a.props # b.props) => out \notin InputObjects
        /\ in # out =>
               /\ Len(b.items) = Len(a.items)
               /\ \A i \in 1..Len(a.items) : FreshWhereChanged(a.items[i], b.items[i])

\* C24: populateNav mutates neither its input list nor any input item, at
\* any depth: after the call the list passed holds the same items, every
\* object that existed before the call has the link, items and props it
\* had, and every output item whose link or props changed is a new object.
C24_PopulateNavPure ==
    popPc = "navDone" =>
        /\ Len(navRefs) = Len(navItems)
        /\ \A i \in 1..Len(navRefs) : Deref(navHeap, navRefs[i]) = navItems[i]
        /\ \A a \in InputObjects : navHeap[a] = navHeapBefore[a]
        /\ Len(navResultRefs) = Len(navRefs)
        /\ \A i \in 1..Len(navRefs) : FreshWhereChanged(navRefs[i], navResultRefs[i])

\* A call that prefixes the link of a child of a group.
C24_Witness ==
    /\ popPc = "navDone"
    /\ \E i \in 1..Len(navRefs) :
          /\ navResultRefs[i] \notin InputObjects
          /\ \E j \in 1..Len(navHeap[navRefs[i]].items) :
                navHeap[navHeap[navResultRefs[i]].items[j]].link
                    # navHeap[navHeap[navRefs[i]].items[j]].link

-----------------------------------------------------------------------------
(* Claims about the links propagation writes *)

\* A string with its duplicate separators collapsed.
Collapsed(s) ==
    LET kept == {j \in 1..Len(s) : j = 1 \/ j = Len(s) \/ s[j] # ""}
        Nth[n \in 1..Cardinality(kept)] ==
            CHOOSE j \in kept : Cardinality({k \in kept : k < j}) = n - 1
    IN  [n \in 1..Cardinality(kept) |-> s[Nth[n]]]

\* '/' + v + '/' + target
Prefixed(v, target) == <<"">> \o v \o target

IsUnversioned(v) == v = Empty \/ v = Root

\* The links of the items populateNav versions (those reached through
\* groups not marked skipVersioning, and not marked themselves) are as
\* expected(v, target) says.
RECURSIVE LinksAre(_, _, _, _)
LinksAre(expected(_, _), v, in, out) ==
    IF IsNavItemWithChildren(in) /\ ~in.skipVersioning
    THEN /\ Len(out.items) = Len(in.items)
         /\ \A i \in 1..Len(in.items) : LinksAre(expected, v, in.items[i], out.items[i])
    ELSE (IsNavItemWithLink(in) /\ ~in.skipVersioning) => out.link = expected(v, in.link)

AsStated(v, target) ==
    IF IsUnversioned(v) THEN target ELSE Collapsed(Prefixed(v, target))

\* C25 as stated: every link that is not skipVersioning becomes
\* '/' + v + '/' + target with duplicate separators collapsed, and is left
\* equal to the target for the versions 'root' and ''.
C25_PrefixAsStated ==
    popPc = "navDone" =>
        \A i \in 1..Len(navItems) :
            (navItems[i].component = Undefined) =>
                LinksAre(AsStated, popVersion, navItems[i], popResult[i])

\* The path a '/'-separated string names once normalized: no empty, '.' or
\* resolvable '..' segment.
AsJoined(v, target) ==
    PosixNormalize(IF IsUnversioned(v) THEN <<"">> \o target ELSE Prefixed(v, target))

IsNormalAbsolute(target) ==
    /\ Len(target) >= 2 /\ target[1] = ""
    /\ \A j \in 2..Len(target) : target[j] \notin {".", ".."}
    /\ \A j \in 2..(Len(target) - 1) : target[j] # ""

\* C25: every link that is not skipVersioning becomes the normalized path
\* of '/' + v + '/' + target (duplicate separators collapsed, '.' and '..'
\* segments resolved), and of '/' + target for the versions 'root' and '';
\* so an unversioned link stays equal to its target when the target is
\* already a normalized absolute path.
C25_PrefixJoined ==
    popPc = "navDone" =>
        \A i \in 1..Len(navItems) :
            (navItems[i].component = Undefined) =>
                /\ LinksAre(AsJoined, popVersion, navItems[i], popResult[i])
                /\ (IsUnversioned(popVersion) /\ IsNavItemWithLink(navItems[i])
                        /\ IsNormalAbsolute(navItems[i].link)) =>
                       popResult[i].link = navItems[i].link

\* A call for the version 'root' on a link nested in a group.
C25_Witness ==
    /\ popPc = "navDone"
    /\ popVersion = Root
    /\ \E i \in 1..Len(navItems) :
          /\ IsNavItemWithChildren(navItems[i]) /\ ~navItems[i].skipVersioning
          /\ \E j \in 1..Len(navItems[i].items) :
                /\ navItems[i].items[j].link = Guide
                /\ ~navItems[i].items[j].skipVersioning
                /\ popResult[i].items[j].link = Guide

\* a + b for two strings that meet at a separator.
Cat(a, b) ==
    IF a[Len(a)] = "" THEN SubSeq(a, 1, Len(a) - 1) \o b ELSE a \o Tail(b)

\* '/' + v + '/' + base + '/' with its separators collapsed
VersionedBase(v, base) ==
    Collapsed(Cat(Cat(Cat(Cat(Slash, v), Slash), IF base = Undefined THEN Empty ELSE base), Slash))

IsVersionedSidebarItem(item) ==
    /\ (item.link # Undefined /\ item.link # Empty) \/ item.hasItems
    /\ ~item.skipVersioning
    /\ ~IsExternalLink(item.link)

\* C26: for a version other than '' and 'root', populateSidebar returns,
\* for every item that has a link or nested items, is not skipVersioning
\* and has no external link, a copy whose base is '/' + v + '/' + the
\* original base (when present) + '/' with separators collapsed and whose
\* other properties are unchanged; for the versions '' and 'root' every
\* item is returned unchanged.
C26_SidebarBase ==
    popPc = "sidebarDone" =>
        /\ Len(popResult) = Len(sidebarItems)
        /\ \A i \in 1..Len(sidebarItems) :
               IF IsUnversioned(popVersion) THEN popResult[i] = sidebarItems[i]
               ELSE IsVersionedSidebarItem(sidebarItems[i]) =>
                        popResult[i] = [sidebarItems[i] EXCEPT
                                           !.base = VersionedBase(popVersion, sidebarItems[i].base)]

\* A group with a base of its own and children, versioned under a locale
\* and a version.
C26_Witness ==
    /\ popPc = "sidebarDone"
    /\ popVersion = <<"fr", "v1">>
    /\ \E i \in 1..Len(sidebarItems) :
          /\ IsVersionedSidebarItem(sidebarItems[i])
          /\ sidebarItems[i].base = <<"", "api">>
          /\ sidebarItems[i].items # <<>>
          /\ popResult[i].base = <<"", "fr", "v1", "api", "">>

PopTwice == popPc \in {"navTwice", "sidebarTwice"}

PopInputTwice == IF popPc = "navTwice" THEN navItems ELSE sidebarItems

\* C27 as stated: applying the transform to its own result, with the same
\* version, gives the result again.
C27_IdempotentAsStated == PopTwice => popAgain = popResult

\* C27: a second application with the same version gives the first result
\* again only for the versions '' and 'root', or for an item the first
\* application returned as it was passed (or a top-level component item);
\* every item the first application prefixed is prefixed again.
C27_IdempotentOnlyUnversioned ==
    PopTwice =>
        /\ Len(popAgain) = Len(popResult)
        /\ \A i \in 1..Len(popResult) :
               popAgain[i] = popResult[i]
                   <=> \/ IsUnversioned(popVersion)
                       \/ popResult[i] = PopInputTwice[i]
                       \/ /\ popPc = "navTwice"
                          /\ PopInputTwice[i].component # Undefined

\* A link prefixed twice.
C27_Witness ==
    /\ popPc = "navTwice"
    /\ popVersion = <<"v1">>
    /\ \E i \in 1..Len(navItems) :
          /\ navItems[i].link = Guide
          /\ popResult[i].link = <<"", "v1", "guide", "">>
          /\ popAgain[i].link = <<"", "v1", "v1", "guide", "">>

-----------------------------------------------------------------------------
(* Claims about the entries of the output table *)

\* The themeConfig object of entry i of the locales table, 0 when it has none.
ThemeAt(i) == locales[i].v.themeConfig

\* C28: the entries of the output table are independent of one another and
\* of the user configuration: once parseLocale has run, no two entries hold
\* the same themeConfig object and no entry holds a themeConfig object of
\* the user configuration, so that writing nav, sidebar or another field of
\* one entry's themeConfig changes neither another entry's nor the user's.
C28_EntriesIndependent ==
    HasRun("parseLocale") =>
        \A i \in 1..Len(locales) :
            ThemeAt(i) # 0 =>
                /\ ThemeAt(i) \notin UserThemes
                /\ \A j \in 1..Len(locales) : j # i => ThemeAt(j) # ThemeAt(i)

-----------------------------------------------------------------------------
(* Claims about the sidebars of versioned entries *)

\* The sidebars configured for a key: normalizedSidebar as the loop of
\* normalizeSidebars over the configuration's locales leaves it.
SidebarsConfigured ==
    NormalizeSidebarsLocales(
        <<>>, SidebarCalls(configuration.locales, heap, configuration.themeConfig.sidebar),
        1, Values(localesMap), stateVersionsList)

\* normalizeSidebars(state), on the state as it is.
SidebarsNormalized ==
    NormalizeSidebars(configuration, heap, locales, localesMap, stateVersionsList)

\* The key K of the output table is the versioned entry of the locale at
\* index L: a bare version for the root locale, else the key parseLocale
\* writes that locale's version at.
IsVersionedEntryOf(K, L) ==
    \E n \in 1..Len(stateVersionsList) :
        IF L = Root THEN K = stateVersionsList[n]
        ELSE \E m \in 1..Len(localesMap) :
                /\ localesMap[m].v = L
                /\ K = PosixJoin(<<localesMap[m].k, stateVersionsList[n]>>)

\* The path key P of the sidebar of the locale at index L, re-prefixed with K.
Reprefix(P, L, K) ==
    LET segs == FilterBoolean(Split(P))
        rest == IF L # Root /\ segs # <<>> /\ <<Head(segs)>> = L THEN Tail(segs) ELSE segs
    IN  SafeJoin(<<K>> \o Spread(rest))

\* The copy of a locale's sidebar that K gets: every path key re-prefixed,
\* the items those of the locale's list.
Reprefixed(parent, L, K) ==
    [j \in 1..Len(parent) |-> Entry(Reprefix(parent[j].k, L, K), parent[j].v)]

\* The indexes of the locales: 'root' and the values of localesMap.
LocaleIndexes == {Root} \union {localesMap[m].v : m \in 1..Len(localesMap)}

\* C29: sidebar propagation to versioned entries.  For every key K of the
\* output table with no sidebar configured for it that is the versioned entry
\* of a locale L (the root locale for a bare version): when L has a normalized
\* sidebar, normalizeSidebars gives K that sidebar with every path key
\* re-prefixed with K and the same items; when L is not the root locale and
\* has none, K gets none (it never inherits the root locale's sidebar).
C29_SidebarInherited ==
    pc = "ready" =>
        \A i \in 1..Len(locales) : \A L \in LocaleIndexes :
            LET K == locales[i].k IN
            (IsVersionedEntryOf(K, L) /\ ~Has(SidebarsConfigured, K)) =>
                IF Has(SidebarsConfigured, L)
                THEN /\ Has(SidebarsNormalized, K)
                     /\ Get(SidebarsNormalized, K) = Reprefixed(Get(SidebarsConfigured, L), L, K)
                ELSE L # Root => ~Has(SidebarsNormalized, K)

-----------------------------------------------------------------------------
(* Claims about the version switcher *)

\* versionsConfig.versionSwitcher is not false.
SwitcherEnabled == configuration.versionSwitcher # <<>>

\* The item is a version-switcher dropdown: the dropdown versionSwitcher()
\* builds, with the configured text, the versions as its items.
IsVersionSwitcher(item) ==
    /\ item.hasItems
    /\ item.text = DefaultSwitcher[1].text
    /\ \A n \in 1..Len(item.items) : item.items[n].skipVersioning

\* The version-switcher dropdowns among the items of entry i's nav.
SwitchersAt(i) ==
    LET nav == heap[ThemeAt(i)].nav[1]
    IN  {n \in 1..Len(nav.items) : IsVersionSwitcher(nav.items[n])}

JustRan(stage) == ran # <<>> /\ ran[Len(ran)] = stage

\* C30: after parseNavs every entry of the output table has a nav, and that
\* nav holds exactly one version-switcher dropdown when versionSwitcher is
\* enabled and none when it is false.
C30_OneSwitcherPerEntry ==
    JustRan("parseNavs") =>
        \A i \in 1..Len(locales) :
            /\ ThemeAt(i) # 0
            /\ heap[ThemeAt(i)].nav # <<>>
            /\ Cardinality(SwitchersAt(i)) = IF SwitcherEnabled THEN 1 ELSE 0

====
